---- MODULE Spec2Model ----
(***************************************************************************)
(* Model of the delivery bookkeeping of cli_code/data_deliverer.py         *)
(* (class DataDeliverer): the access checks of __init__, the existence     *)
(* check of get_file_info, the discovery loop of _data_to_deliver, the     *)
(* record map self.data and its mutators update_delivery, set_progress,    *)
(* update_data_dict, prep_upload and put, and the session teardown         *)
(* __exit__ with _finalize and _clear_tempdir.                             *)
(*                                                                         *)
(* Texts (error messages, object keys) are sequences of tokens, so that    *)
(* "the message contains the path" and "the key ends in .ccp" are          *)
(* properties of the value that is built, not of a label.                  *)
(***************************************************************************)
EXTENDS Integers, Sequences, FiniteSets, TLC

\* ------------------------------------------------------------------------
\* The file system the session is pointed at: two directories and a file
\* given on its own.
Files == {"f1", "f2", "f3", "f4"}
Dirs == {"d1", "d2"}
None == "None"

\* folder.glob('**/*') restricted to files, in the order the file system
\* yields them.
Glob(d) == CASE d = "d1" -> <<"f1", "f2">>
             [] d = "d2" -> <<"f3">>
             [] OTHER -> <<>>

\* Bound on the number of public method calls made on one open session in
\* the specification of free call sequences.
MaxCalls == 2

\* ------------------------------------------------------------------------
\* Texts

NoText == <<>>

\* s occurs in t as a contiguous run of tokens.
Contains(t, s) ==
    \E i \in 0..(Len(t) - Len(s)) :
        \A j \in 1..Len(s) : t[i + j] = s[j]

EndsWith(t, s) ==
    /\ Len(t) >= Len(s)
    /\ \A j \in 1..Len(s) : t[Len(t) - Len(s) + j] = s[j]

\* Every order in which the elements of a set can be listed.
Orders(S) ==
    {ord \in [1..Cardinality(S) -> S] : \A x \in S : \E i \in 1..Cardinality(S) : ord[i] = x}

Elements(seq) == {seq[i] : i \in 1..Len(seq)}

\* The error texts a caller reports with a cancellation: the empty text
\* (prep_upload and put return "" for an already cancelled record) and one
\* failure message.
ErrTexts == {NoText, <<"E1">>}

\* ------------------------------------------------------------------------
\* Stage flags

NotStarted == [in_progress |-> FALSE, finished |-> FALSE]
InProgress == [in_progress |-> TRUE, finished |-> FALSE]
Finished == [in_progress |-> FALSE, finished |-> TRUE]

Stages == {"processing", "upload", "database"}

\* ------------------------------------------------------------------------
\* get_file_info

\* The header sniff of is_compressed(file): "plain", "packed" (a recognised
\* compressed format) or "ioerr" (the header could not be read).
SniffKinds == {"plain", "packed", "ioerr"}

SniffError(file) == <<"Could not read header of ", file>>

IsCompressed(kind, file) ==
    [compressed |-> kind = "packed",
     error |-> IF kind = "ioerr" THEN SniffError(file) ELSE NoText]

\* proc_suff: ".zst" for a file that is not compressed, then ".ccp".
ProcSuff(compressed) ==
    (IF ~compressed THEN <<".zst">> ELSE <<>>) \o <<".ccp">>

\* file.suffixes: the second file carries the extension of a compressed
\* format, the third that of the delivery system's own compression.
Suffixes(file) ==
    CASE file = "f2" -> <<".gz">>
      [] file = "f3" -> <<".zst">>
      [] OTHER -> <<>>

\* file.name: the stem and the extensions.
FileName(file) == <<file>> \o Suffixes(file)

\* bucketfilename with the suffix chosen by the name's extension.
BucketFileNameByExtension(file, compressed) ==
    FileName(file) \o ProcSuff(Suffixes(file) # <<>>)

\* bucketfilename: directory_path / (file.name + proc_suff)
BucketFileName(file, compressed) == FileName(file) \o ProcSuff(compressed)

InDbError(file) == <<"File '", file, "' already exists in the database. ">>

InBucketNotDbError(file, s3error) ==
    s3error \o <<"File '", file,
                 "' already exists in bucket, but does NOT exist in database. ">>

Rejected(error) == [proceed |-> FALSE, error |-> error]

\* s3.file_exists_in_bucket(key): (in_bucket, error)
FileExistsInBucket(bkt, key) == [in_bucket |-> key \in bkt, error |-> NoText]

\* The existence check with the overwrite flag also letting through a key
\* that is in the bucket but not in the database.
ExistenceCheckOverwriteWins(file, key, dbfiles, s3res, ovw) ==
    IF (key \in dbfiles \/ s3res.in_bucket) /\ ~ovw
    THEN Rejected(InDbError(file))
    ELSE [proceed |-> TRUE, error |-> s3res.error]

\* The existence check of get_file_info, lines 490-519: the database is
\* asked first, then the bucket.
ExistenceCheck(file, key, dbfiles, s3res, ovw) ==
    IF key \in dbfiles /\ ~ovw
    THEN Rejected(InDbError(file))
    ELSE LET in_db == key \in dbfiles
         IN IF s3res.in_bucket /\ ~in_db
            THEN Rejected(InBucketNotDbError(file, s3res.error))
            ELSE IF s3res.in_bucket /\ ~ovw
                 THEN Rejected(s3res.error)
                 ELSE [proceed |-> TRUE, error |-> s3res.error]

GetFileInfo(file, in_dir, dir_name, kind, dbfiles, bkt, ovw) ==
    LET snf == IsCompressed(kind, file)
        key == BucketFileName(file, snf.compressed)
        chk == ExistenceCheck(file, key, dbfiles, FileExistsInBucket(bkt, key), ovw)
    IN IF snf.error # NoText
       THEN Rejected(snf.error)
       ELSE IF ~chk.proceed
            THEN chk
            ELSE [in_directory |-> in_dir,
                  dir_name |-> IF in_dir THEN dir_name ELSE None,
                  proceed |-> TRUE,
                  compressed |-> snf.compressed,
                  new_file |-> key,
                  error |-> chk.error,
                  processing |-> NotStarted,
                  upload |-> NotStarted,
                  database |-> NotStarted]

\* ------------------------------------------------------------------------
\* State

VARIABLES
    phase,          \* "new" (before __init__), "open", "raised" (__init__
                    \* raised), "closed" (__exit__ has run)
    data_list,      \* the input paths, in the order given
    initial,        \* the two stores as the session found them
    login,          \* the calling method and what the user and project
                    \* databases hold for the credentials given
    sniff,          \* what is_compressed finds for each file
    overwrite,      \* self.overwrite
    break_on_fail,  \* self.break_on_fail
    data,           \* self.data: file -> record
    order,          \* the insertion order of self.data (dict order)
    failed,         \* self.failed
    bucket,         \* the keys present in the S3 bucket
    db,             \* the keys of project_db[project_id]['files']
    calls,          \* public method calls made on the open session
    last,           \* the last call: its name, arguments and return value
    prev,           \* self.data, bucket and db as they were before that call
    summary,        \* the two tables __exit__ prints
    task,           \* where the delivery loop stands with each record
    temp,           \* the folders the session has left in tempdir[1]
    local           \* the local files a download session reads and writes

vars == <<phase, data_list, initial, login, sniff, overwrite, break_on_fail, data,
          order, failed, bucket, db, calls, last, prev, summary, task, temp,
          local>>

EmptyMap == [x \in {} |-> NoText]

NoCall == [op |-> "none", file |-> None, arg |-> None, ret |-> None]

NoSummary == [succeeded |-> {}, failed |-> {}, finalized |-> {}, raised |-> FALSE,
              printed |-> FALSE]

\* No local file, no folder made, nothing downloaded.
NoLocal == [files |-> EmptyMap, dirs |-> {}, fetched |-> EmptyMap]

Snapshot == [data |-> data, bucket |-> bucket, db |-> db, local |-> local,
             temp |-> temp]

\* The key get_file_info computes for a file under the current sniff.
KeyOf(f) == BucketFileName(f, IsCompressed(sniff[f], f).compressed)

\* ------------------------------------------------------------------------
\* The access checks of __init__

\* self.method: the name of the calling function.
Methods == {"put", "get"}

\* user_db[id]['role']: the two roles the code knows and any other value.
Roles == {"facility", "researcher", "admin"}

\* What _check_project_access finds for the project: everything in order,
\* the project not in project_db, the project not among the user's projects,
\* an owner that does not match, or a delivery option other than S3.
ProjectStates == {"ok", "missing", "not_granted", "wrong_owner", "not_s3"}

Logins == [method : Methods, known : BOOLEAN, password_ok : BOOLEAN,
           role : Roles, project : ProjectStates]

\* A facility user with the right password and project, calling put.
FacilityPut == [method |-> "put", known |-> TRUE, password_ok |-> TRUE,
                role |-> "facility", project |-> "ok"]

\* _check_ds_access without the comparison of role and method.
CheckDsAccessAnyRole(lg) ==
    IF ~lg.known
    THEN "CouchDBException"
    ELSE IF ~lg.password_ok
         THEN "DeliverySystemException"
         ELSE None

\* _check_ds_access: the exception it raises, None when access is granted.
CheckDsAccess(lg) ==
    IF ~lg.known
    THEN "CouchDBException"
    ELSE IF ~lg.password_ok
         THEN "DeliverySystemException"
         ELSE IF \/ lg.role = "facility" /\ lg.method = "put"
                 \/ lg.role = "researcher" /\ lg.method = "get"
              THEN None
              ELSE "DeliveryOptionException"

\* _check_project_access: the exception it raises, None when access is
\* granted.
CheckProjectAccess(lg) ==
    CASE lg.project = "missing" -> "CouchDBException"
      [] lg.project = "not_granted" -> "DeliverySystemException"
      [] lg.project = "wrong_owner" -> "DeliveryOptionException"
      [] lg.project = "not_s3" -> "DeliveryOptionException"
      [] OTHER -> None

\* Lines 114-135 of __init__: the first check that raises, None if none does.
AccessChecks(lg, dl) ==
    IF CheckDsAccess(lg) # None
    THEN CheckDsAccess(lg)
    ELSE IF CheckProjectAccess(lg) # None
         THEN CheckProjectAccess(lg)
         ELSE IF dl = <<>>
              THEN "DeliverySystemException"
              ELSE None

\* ------------------------------------------------------------------------
\* Discovery: get_dir_info and _data_to_deliver

\* A failed-map entry: the error of a file, or (for a directory name) the
\* nested map of its failed files.
FailEntry(error, sub) == [error |-> error, sub |-> sub]

RECURSIVE GetDirInfoFrom(_, _, _, _, _, _, _)
GetDirInfoFrom(folder, i, acc, snf, dbfiles, bkt, ovw) ==
    IF i > Len(Glob(folder))
    THEN acc
    ELSE LET f == Glob(folder)[i]
             file_info == GetFileInfo(f, TRUE, folder, snf[f], dbfiles, bkt, ovw)
             nxt == IF ~file_info.proceed
                    THEN [acc EXCEPT !.dir_fail = (f :> file_info) @@ @,
                                     !.touched = @ + 1]
                    ELSE [acc EXCEPT !.dir_info = (f :> file_info) @@ @,
                                     !.dir_order = Append(@, f),
                                     !.touched = @ + 1]
         IN GetDirInfoFrom(folder, i + 1, nxt, snf, dbfiles, bkt, ovw)

GetDirInfo(folder, snf, dbfiles, bkt, ovw) ==
    GetDirInfoFrom(folder, 1,
                   [dir_info |-> EmptyMap, dir_order |-> <<>>,
                    dir_fail |-> EmptyMap, touched |-> 0],
                   snf, dbfiles, bkt, ovw)

\* dict.update keeps the position of a key that is already present.
RECURSIVE AppendNew(_, _)
AppendNew(ord, more) ==
    IF more = <<>>
    THEN ord
    ELSE AppendNew(IF \E k \in 1..Len(ord) : ord[k] = Head(more)
                   THEN ord ELSE Append(ord, Head(more)),
                   Tail(more))

RECURSIVE DataToDeliverFrom(_, _, _, _, _, _, _, _)
DataToDeliverFrom(method, dl, i, acc, snf, dbfiles, bkt, ovw) ==
    IF i > Len(dl) \/ acc.raised # None
    THEN acc
    ELSE LET d == dl[i]
         IN IF d \in DOMAIN acc.all_files
            THEN [acc EXCEPT !.raised = "DeliveryOptionException"]
            ELSE IF method = "get"
                 THEN DataToDeliverFrom(method, dl, i + 1,
                            [acc EXCEPT !.all_files = (d :> EmptyMap) @@ @,
                                        !.order = AppendNew(@, <<d>>)],
                            snf, dbfiles, bkt, ovw)
            ELSE IF d \in Dirs
                 THEN LET r == GetDirInfo(d, snf, dbfiles, bkt, ovw)
                      IN DataToDeliverFrom(method, dl, i + 1,
                            [acc EXCEPT !.initial_fail = r.dir_fail @@ @,
                                        !.all_files = r.dir_info @@ @,
                                        !.order = AppendNew(@, r.dir_order),
                                        !.touched = @ + r.touched],
                            snf, dbfiles, bkt, ovw)
                 ELSE LET file_info ==
                             GetFileInfo(d, FALSE, None, snf[d], dbfiles, bkt, ovw)
                      IN DataToDeliverFrom(method, dl, i + 1,
                            IF ~file_info.proceed
                            THEN [acc EXCEPT !.initial_fail = (d :> file_info) @@ @,
                                             !.touched = @ + 1]
                            ELSE [acc EXCEPT !.all_files = (d :> file_info) @@ @,
                                             !.order = AppendNew(@, <<d>>),
                                             !.touched = @ + 1],
                            snf, dbfiles, bkt, ovw)

DataToDeliver(method, dl, snf, dbfiles, bkt, ovw) ==
    DataToDeliverFrom(method, dl, 1,
                      [all_files |-> EmptyMap, order |-> <<>>,
                       initial_fail |-> EmptyMap, raised |-> None, touched |-> 0],
                      snf, dbfiles, bkt, ovw)

\* __init__ from the access checks on: any check that raises ends it before
\* _data_to_deliver is called.
Construct ==
    /\ phase = "new"
    /\ LET denied == AccessChecks(login, data_list)
           r == DataToDeliver(login.method, data_list, sniff, db, bucket, overwrite)
           raised == IF denied # None THEN denied ELSE r.raised
       IN /\ phase' = IF raised # None THEN "raised" ELSE "open"
          /\ data' = IF raised # None THEN data ELSE r.all_files
          /\ order' = IF raised # None THEN order ELSE r.order
          /\ failed' = IF raised # None
                       THEN failed
                       ELSE [f \in DOMAIN r.initial_fail |->
                                FailEntry(r.initial_fail[f].error, EmptyMap)]
          /\ last' = [op |-> "__init__", file |-> None, arg |-> None,
                      ret |-> [raised |-> raised,
                               touched |-> IF denied # None THEN 0 ELSE r.touched]]
    /\ prev' = Snapshot
    /\ UNCHANGED <<data_list, initial, login, sniff, overwrite, break_on_fail,
                   bucket, db, calls, summary, task, temp, local>>

\* ------------------------------------------------------------------------
\* update_delivery

\* The cascade message without the failing file's own error text.
CascadeErrorPathOnly(file, error) == <<"Failed file: ", file, " -- ">>

CascadeError(file, error) == <<"Failed file: ", file, " -- ">> \o error

\* The loop without the comparison of dir_name.
CascadeTargetsAnyDir(d, file) ==
    {path \in DOMAIN d :
        /\ ~d[path].upload.in_progress
        /\ ~d[path].upload.finished}

\* The loop without the test of upload.in_progress.
CascadeTargetsUploading(d, file) ==
    {path \in DOMAIN d :
        /\ d[path].dir_name = d[file].dir_name
        /\ ~d[path].upload.finished}

\* The records the break-on-fail loop of update_delivery rewrites: those
\* with the failing file's dir_name whose upload is neither in progress nor
\* finished.
CascadeTargets(d, file) ==
    {path \in DOMAIN d :
        /\ d[path].dir_name = d[file].dir_name
        /\ ~d[path].upload.in_progress
        /\ ~d[path].upload.finished}

\* The loop stopping at the first record it does not rewrite.
RECURSIVE CascadeLoopStopping(_, _, _, _, _, _)
CascadeLoopStopping(d, ord, i, file, error, visited) ==
    IF i > Len(ord)
    THEN [data |-> d, visited |-> visited]
    ELSE LET path == ord[i]
             info == d[path]
         IN IF /\ info.dir_name = d[file].dir_name
               /\ ~info.upload.in_progress
               /\ ~info.upload.finished
            THEN CascadeLoopStopping(
                     [d EXCEPT ![path].proceed = FALSE,
                               ![path].error = CascadeError(file, error)],
                     ord, i + 1, file, error, Append(visited, path))
            ELSE [data |-> d, visited |-> visited]

\* The break-on-fail loop of update_delivery as it runs: over
\* self.data.items(), that is in the insertion order ord of the record map,
\* from position i; visited lists the records rewritten so far, in the order
\* in which their entries are put into self.failed[dir_name].
RECURSIVE CascadeLoop(_, _, _, _, _, _)
CascadeLoop(d, ord, i, file, error, visited) ==
    IF i > Len(ord)
    THEN [data |-> d, visited |-> visited]
    ELSE LET path == ord[i]
             info == d[path]
         IN IF /\ info.dir_name = d[file].dir_name
               /\ ~info.upload.in_progress
               /\ ~info.upload.finished
            THEN CascadeLoop([d EXCEPT ![path].proceed = FALSE,
                                       ![path].error = CascadeError(file, error)],
                             ord, i + 1, file, error, Append(visited, path))
            ELSE CascadeLoop(d, ord, i + 1, file, error, visited)

\* The records update_delivery(file, updinfo) rewrites in its loop, in the
\* order in which it does.
Visited(d, ord, bof, file, updinfo) ==
    IF ~updinfo.proceed /\ d[file].in_directory /\ bof
    THEN CascadeLoop(d, ord, 1, file, updinfo.error, <<>>).visited
    ELSE <<>>

\* update_delivery cascading only for a file whose own upload has not
\* started, and cancelling just that file otherwise.
UpdatedDataEarlyOnly(d, bof, file, updinfo) ==
    IF ~updinfo.proceed
    THEN IF d[file].in_directory /\ bof /\ d[file].upload = NotStarted
         THEN [path \in DOMAIN d |->
                 IF path \in CascadeTargets(d, file)
                 THEN [d[path] EXCEPT !.proceed = FALSE,
                                      !.error = CascadeError(file, updinfo.error)]
                 ELSE d[path]]
         ELSE [d EXCEPT ![file].proceed = FALSE,
                        ![file].error = updinfo.error]
    ELSE [d EXCEPT ![file].proceed = updinfo.proceed,
                   ![file].error = updinfo.error]

\* self.data after update_delivery(file, updinfo).
UpdatedData(d, bof, file, updinfo) ==
    IF ~updinfo.proceed
    THEN IF d[file].in_directory /\ bof
         THEN [path \in DOMAIN d |->
                 IF path \in CascadeTargets(d, file)
                 THEN [d[path] EXCEPT !.proceed = FALSE,
                                      !.error = CascadeError(file, updinfo.error)]
                 ELSE d[path]]
         ELSE [d EXCEPT ![file].proceed = FALSE,
                        ![file].error = updinfo.error]
    ELSE [d EXCEPT ![file].proceed = updinfo.proceed,
                   ![file].error = updinfo.error]

\* self.failed after update_delivery(file, updinfo).
UpdatedFailed(d, fl, bof, file, updinfo) ==
    IF updinfo.proceed
    THEN fl
    ELSE LET dir == d[file].dir_name
             fl1 == IF d[file].in_directory /\ dir \notin DOMAIN fl
                    THEN (dir :> FailEntry(NoText, EmptyMap)) @@ fl
                    ELSE fl
         IN IF d[file].in_directory /\ bof
            THEN [fl1 EXCEPT ![dir].sub =
                     [path \in CascadeTargets(d, file) |->
                         CascadeError(file, updinfo.error)] @@ @]
            ELSE LET fl2 == IF d[file].in_directory
                            THEN [fl1 EXCEPT ![dir].sub =
                                     (file :> updinfo.error) @@ @]
                            ELSE fl1
                 IN (file :> FailEntry(updinfo.error, EmptyMap)) @@ fl2

\* What the callers hand to update_delivery: the verdict and its error text.
UpdInfos == [proceed : BOOLEAN, error : ErrTexts]

Called(op, file, arg, ret) == [op |-> op, file |-> file, arg |-> arg, ret |-> ret]

UpdateDelivery(file, updinfo) ==
    /\ phase = "open"
    /\ calls < MaxCalls
    /\ file \in DOMAIN data
    /\ data' = UpdatedData(data, break_on_fail, file, updinfo)
    /\ failed' = UpdatedFailed(data, failed, break_on_fail, file, updinfo)
    /\ calls' = calls + 1
    /\ last' = Called("update_delivery", file, updinfo,
                      [visited |-> Visited(data, order, break_on_fail, file, updinfo)])
    /\ prev' = Snapshot
    /\ UNCHANGED <<phase, data_list, initial, login, sniff, overwrite,
                   break_on_fail, order, bucket, db, summary, task, temp, local>>

\* ------------------------------------------------------------------------
\* set_progress

\* to_update: the first of processing, upload, db that is set.
ToUpdate(processing, upload, dbflag) ==
    IF processing THEN "processing"
    ELSE IF upload THEN "upload"
    ELSE IF dbflag THEN "database"
    ELSE ""

\* Every to_update the flags of a call can select.
StageArgs == {ToUpdate(p, u, d) : p \in BOOLEAN, u \in BOOLEAN, d \in BOOLEAN}

\* set_progress writing each of the two flags from its own argument.
ProgressedFlagwise(flags, started, finished) ==
    IF started \/ finished
    THEN [in_progress |-> started, finished |-> finished]
    ELSE flags

\* The stage flags after set_progress(started, finished) on them.
Progressed(flags, started, finished) ==
    IF started
    THEN [in_progress |-> started, finished |-> ~started]
    ELSE IF finished
         THEN [in_progress |-> ~finished, finished |-> finished]
         ELSE flags

\* self.data after set_progress; with no stage named, self.data[item]['']
\* is a KeyError and nothing is written.
ProgressSet(d, item, to_update, started, finished) ==
    IF to_update = ""
    THEN d
    ELSE [d EXCEPT ![item][to_update] = Progressed(@, started, finished)]

SetProgress(item, to_update, started, finished) ==
    /\ phase = "open"
    /\ calls < MaxCalls
    /\ item \in DOMAIN data
    /\ data' = ProgressSet(data, item, to_update, started, finished)
    /\ calls' = calls + 1
    /\ last' = Called("set_progress", item,
                      [stage |-> to_update, started |-> started, finished |-> finished],
                      [raised |-> to_update = "" /\ (started \/ finished)])
    /\ prev' = Snapshot
    /\ UNCHANGED <<phase, data_list, initial, login, sniff, overwrite,
                   break_on_fail, order, failed, bucket, db, summary, task, temp, local>>

\* ------------------------------------------------------------------------
\* prep_upload and put

ProcessError(file) == <<"Processing failed: ", file>>

\* The folder process_file leaves in tempdir[1] for a file it has encrypted.
TempFolder(file) == file

\* A test that lets a cancelled record through when it carries no error text.
RefusedWithError(fileinfo) == ~fileinfo.proceed /\ fileinfo.error # NoText

\* "if not path_info['proceed']" of prep_upload, "if not fileinfo['proceed']"
\* of put.
Refused(fileinfo) == ~fileinfo.proceed

\* prep_upload(path, self.data[path]); process_file succeeds or not (ok).
PrepUpload(path, ok) ==
    /\ phase = "open"
    /\ calls < MaxCalls
    /\ path \in DOMAIN data
    /\ IF Refused(data[path])
       THEN /\ data' = data
            /\ temp' = temp
            /\ last' = Called("prep_upload", path, [ok |-> ok],
                              [processed |-> FALSE, error |-> NoText])
       ELSE /\ data' = ProgressSet(data, path, "processing", TRUE, FALSE)
            /\ temp' = IF ok THEN temp \cup {TempFolder(path)} ELSE temp
            /\ last' = Called("prep_upload", path, [ok |-> ok],
                              [processed |-> ok,
                               error |-> IF ok THEN NoText ELSE ProcessError(path)])
    /\ calls' = calls + 1
    /\ prev' = Snapshot
    /\ UNCHANGED <<phase, data_list, initial, login, sniff, overwrite,
                   break_on_fail, order, failed, bucket, db, summary, task, local>>

NotProcessedError(file) ==
    <<"File: '", file, "' -- File not processed (e.g. encrypted). Bug in code. ">>

UploadFailedError(file) == <<"File: ", file, " -- Upload failed! -- ">>

\* What put(file, fileinfo) returns for a cancelled record.
PutRefusal(fileinfo, file) ==
    [uploaded |-> FALSE,
     error |-> IF ~fileinfo.processing.finished
               THEN NotProcessedError(file) ELSE NoText]

\* put(file, self.data[file]); the upload to the bucket succeeds or not (ok).
Put(file, ok) ==
    /\ phase = "open"
    /\ calls < MaxCalls
    /\ file \in DOMAIN data
    /\ IF Refused(data[file])
       THEN /\ data' = data
            /\ bucket' = bucket
            /\ last' = Called("put", file, [ok |-> ok], PutRefusal(data[file], file))
       ELSE /\ data' = ProgressSet(data, file, "upload", TRUE, FALSE)
            /\ bucket' = IF ok THEN bucket \cup {data[file].new_file} ELSE bucket
            /\ last' = Called("put", file, [ok |-> ok],
                              [uploaded |-> ok,
                               error |-> IF ok THEN NoText ELSE UploadFailedError(file)])
    /\ calls' = calls + 1
    /\ prev' = Snapshot
    /\ UNCHANGED <<phase, data_list, initial, login, sniff, overwrite,
                   break_on_fail, order, failed, db, summary, task, temp, local>>

\* ------------------------------------------------------------------------
\* update_data_dict

FolderError(dir, path) ==
    <<"One or more of the items in folder '", dir, "' (at least '", path,
      "') has already been delivered!">>

\* self.data after update_data_dict(path, pathinfo).
DataDictUpdated(d, path, pathinfo) ==
    LET d1 == [d EXCEPT ![path].proceed = pathinfo.proceed,
                        ![path].error = pathinfo.error]
    IN IF pathinfo.proceed
       THEN d1
       ELSE LET d2 == [d1 EXCEPT ![path].error = pathinfo.error \o <<"\n">>]
                to_stop == {key \in DOMAIN d2 :
                               /\ d2[key].in_directory
                               /\ d2[key].dir_name = d2[path].dir_name}
            IN IF d2[path].in_directory
               THEN [f \in DOMAIN d2 |->
                       IF f \in to_stop
                       THEN [d2[f] EXCEPT !.proceed = pathinfo.proceed,
                                          !.error = FolderError(d2[f].dir_name, path)]
                       ELSE d2[f]]
               ELSE d2

UpdateDataDict(path, pathinfo) ==
    /\ phase = "open"
    /\ calls < MaxCalls
    /\ path \in DOMAIN data
    /\ data' = DataDictUpdated(data, path, pathinfo)
    /\ calls' = calls + 1
    /\ last' = Called("update_data_dict", path, pathinfo, TRUE)
    /\ prev' = Snapshot
    /\ UNCHANGED <<phase, data_list, initial, login, sniff, overwrite,
                   break_on_fail, order, failed, bucket, db, summary, task, temp, local>>

\* ------------------------------------------------------------------------
\* _finalize and __exit__

\* s3.delete_item(key); with s3ok false the call raises ClientError.
DeleteItem(bkt, key) == bkt \ {key}

\* The object-store half of _finalize, lines 644-652.
FinalizeBucket(info, bkt, s3ok) ==
    IF info.upload.finished /\ ~info.database.finished
    THEN IF s3ok
         THEN [bucket |-> DeleteItem(bkt, info.new_file), ret |-> "go on"]
         ELSE [bucket |-> bkt, ret |-> "False"]
    ELSE [bucket |-> bkt, ret |-> "go on"]

\* The metadata-store half of _finalize, lines 654-663: proj is the project
\* document as fetched; the del acts on that fetched document, which is
\* never saved back, and raises KeyError when the key is not in it.
FinalizeDb(info, dbfiles) ==
    IF info.database.finished /\ ~info.upload.finished
    THEN IF info.new_file \in dbfiles
         THEN [db |-> dbfiles, ret |-> "True"]
         ELSE [db |-> dbfiles, ret |-> "KeyError"]
    ELSE [db |-> dbfiles, ret |-> "True"]

\* _finalize(file, info): the two stores afterwards and what it returns
\* ("True", "False") or raises ("KeyError").
Finalize(info, bkt, dbfiles, s3ok) ==
    LET b == FinalizeBucket(info, bkt, s3ok)
    IN IF b.ret = "False"
       THEN [bucket |-> b.bucket, db |-> dbfiles, ret |-> "False"]
       ELSE LET m == FinalizeDb(info, dbfiles)
            IN [bucket |-> b.bucket, db |-> m.db, ret |-> m.ret]

\* The condition under which __exit__ lists a record as delivered.
Delivered(info) ==
    info.proceed /\ info.upload.finished /\ info.database.finished

Item(d, f) == IF d[f].in_directory THEN d[f].dir_name ELSE f

\* The loop of __exit__ over self.data.items(), from position i; s3down is
\* the set of files whose delete_item raises ClientError.
RECURSIVE ExitLoop(_, _, _, _, _, _)
ExitLoop(d, ord, fl, i, st, s3down) ==
    IF i > Len(ord) \/ st.raised # None
    THEN st
    ELSE LET f == ord[i]
         IN IF Delivered(d[f])
            THEN IF f \in DOMAIN fl
                 THEN [st EXCEPT !.raised = "DeliverySystemException"]
                 ELSE ExitLoop(d, ord, fl, i + 1,
                               [st EXCEPT !.succeeded = @ \cup {Item(d, f)}],
                               s3down)
            ELSE LET r == Finalize(d[f], st.bucket, st.db, f \notin s3down)
                 IN IF r.ret = "KeyError"
                    THEN [st EXCEPT !.raised = "KeyError",
                                    !.bucket = r.bucket, !.db = r.db]
                    ELSE ExitLoop(d, ord, fl, i + 1,
                                  [st EXCEPT !.bucket = r.bucket, !.db = r.db,
                                             !.finalized = @ \cup {f},
                                             !.failed = @ \cup {Item(d, f)}],
                                  s3down)

\* The loop of _clear_tempdir over an empty tempdir[1].
NoRemoval == [failing |-> None, removed |-> {}]

\* What the loop of _clear_tempdir meets: every rmtree succeeds (failing is
\* None), or the rmtree of one folder raises after the folders in removed,
\* which iterdir yielded before it, are gone.
RmOutcomes(tmp) ==
    {[failing |-> None, removed |-> tmp]} \cup
    UNION {{[failing |-> x, removed |-> R] : R \in SUBSET (tmp \ {x})} : x \in tmp}

\* _clear_tempdir: the except clause names DeliverySystemException, so the
\* OSError of a failing rmtree leaves the loop and the method.
ClearTempdir(tmp, rm) ==
    [temp |-> tmp \ rm.removed,
     raised |-> IF rm.failing = None THEN None ELSE "OSError"]

\* __exit__(exc_type, ...): with an exception in flight it returns at once.
Exit(exc, s3down, rm) ==
    /\ phase = "open"
    /\ LET st == IF exc
                 THEN [bucket |-> bucket, db |-> db, succeeded |-> {},
                       failed |-> {}, finalized |-> {}, raised |-> None]
                 ELSE ExitLoop(data, order, failed, 1,
                               [bucket |-> bucket, db |-> db, succeeded |-> {},
                                failed |-> {}, finalized |-> {}, raised |-> None],
                               s3down)
           cleared == ~exc /\ st.raised = None
           c == IF cleared THEN ClearTempdir(temp, rm) ELSE [temp |-> temp, raised |-> None]
           raised == IF st.raised # None THEN st.raised ELSE c.raised
       IN /\ bucket' = st.bucket
          /\ db' = st.db
          /\ temp' = c.temp
          /\ summary' = [succeeded |-> st.succeeded, failed |-> st.failed,
                         finalized |-> st.finalized,
                         raised |-> raised # None,
                         printed |-> ~exc /\ raised = None]
          /\ last' = Called("__exit__", None,
                            [exc |-> exc, s3down |-> s3down, cleared |-> cleared,
                             rm |-> IF cleared THEN rm ELSE NoRemoval],
                            [raised |-> raised])
    /\ phase' = "closed"
    /\ prev' = Snapshot
    /\ UNCHANGED <<data_list, initial, login, sniff, overwrite, break_on_fail,
                   data, order, failed, calls, task, local>>

\* ------------------------------------------------------------------------
\* The delivery loop that drives one record through prep_upload, put and the
\* registration in the metadata store.

RegisterError(file) == <<"Registration failed: ", file>>

Cancel(error) == [proceed |-> FALSE, error |-> error]

\* The worker enters prep_upload: the record is marked as being processed.
ProcessStart(f) ==
    /\ phase = "open"
    /\ f \in DOMAIN data
    /\ task[f] = "waiting"
    /\ data[f].proceed
    /\ data' = ProgressSet(data, f, "processing", TRUE, FALSE)
    /\ task' = [task EXCEPT ![f] = "processing"]
    /\ last' = Called("prep_upload", f, None, None)
    /\ prev' = Snapshot
    /\ UNCHANGED <<phase, data_list, initial, login, sniff, overwrite,
                   break_on_fail, order, failed, bucket, db, calls, summary, temp, local>>

\* process_file returns: the loop marks processing finished, or cancels the
\* record with the error.
ProcessEnd(f, ok) ==
    /\ phase = "open"
    /\ f \in DOMAIN data
    /\ task[f] = "processing"
    /\ IF ok
       THEN /\ data' = ProgressSet(data, f, "processing", FALSE, TRUE)
            /\ failed' = failed
            /\ temp' = temp \cup {TempFolder(f)}
            /\ task' = [task EXCEPT ![f] = "processed"]
       ELSE /\ data' = UpdatedData(data, break_on_fail, f, Cancel(ProcessError(f)))
            /\ failed' = UpdatedFailed(data, failed, break_on_fail, f,
                                       Cancel(ProcessError(f)))
            /\ temp' = temp
            /\ task' = [task EXCEPT ![f] = "done"]
    /\ last' = Called("process_file", f, [ok |-> ok], None)
    /\ prev' = Snapshot
    /\ UNCHANGED <<phase, data_list, initial, login, sniff, overwrite,
                   break_on_fail, order, bucket, db, calls, summary, local>>

\* The worker enters put: a cancelled record is refused, any other is marked
\* as uploading.
UploadStart(f) ==
    /\ phase = "open"
    /\ f \in DOMAIN data
    /\ task[f] = "processed"
    /\ IF ~data[f].proceed
       THEN /\ data' = data
            /\ task' = [task EXCEPT ![f] = "done"]
       ELSE /\ data' = ProgressSet(data, f, "upload", TRUE, FALSE)
            /\ task' = [task EXCEPT ![f] = "uploading"]
    /\ last' = Called("put", f, None, None)
    /\ prev' = Snapshot
    /\ UNCHANGED <<phase, data_list, initial, login, sniff, overwrite,
                   break_on_fail, order, failed, bucket, db, calls, summary, temp, local>>

\* upload_file returns: the object is in the bucket and the loop marks the
\* upload finished, or the loop cancels the record with put's error.
UploadEnd(f, ok) ==
    /\ phase = "open"
    /\ f \in DOMAIN data
    /\ task[f] = "uploading"
    /\ IF ok
       THEN /\ bucket' = bucket \cup {data[f].new_file}
            /\ data' = ProgressSet(data, f, "upload", FALSE, TRUE)
            /\ failed' = failed
            /\ task' = [task EXCEPT ![f] = "uploaded"]
       ELSE /\ bucket' = bucket
            /\ data' = UpdatedData(data, break_on_fail, f, Cancel(UploadFailedError(f)))
            /\ failed' = UpdatedFailed(data, failed, break_on_fail, f,
                                       Cancel(UploadFailedError(f)))
            /\ task' = [task EXCEPT ![f] = "done"]
    /\ last' = Called("upload_file", f, [ok |-> ok], None)
    /\ prev' = Snapshot
    /\ UNCHANGED <<phase, data_list, initial, login, sniff, overwrite,
                   break_on_fail, order, db, calls, summary, temp, local>>

\* The registration of an uploaded record: marked in progress, the entry is
\* written to the metadata store and the stage marked finished, or the record
\* is cancelled with the error.
Register(f, ok) ==
    /\ phase = "open"
    /\ f \in DOMAIN data
    /\ task[f] = "uploaded"
    /\ LET d1 == ProgressSet(data, f, "database", TRUE, FALSE)
       IN IF ok
          THEN /\ db' = db \cup {data[f].new_file}
               /\ data' = ProgressSet(d1, f, "database", FALSE, TRUE)
               /\ failed' = failed
          ELSE /\ db' = db
               /\ data' = UpdatedData(d1, break_on_fail, f, Cancel(RegisterError(f)))
               /\ failed' = UpdatedFailed(d1, failed, break_on_fail, f,
                                          Cancel(RegisterError(f)))
    /\ task' = [task EXCEPT ![f] = "done"]
    /\ last' = Called("register", f, [ok |-> ok], None)
    /\ prev' = Snapshot
    /\ UNCHANGED <<phase, data_list, initial, login, sniff, overwrite,
                   break_on_fail, order, bucket, calls, summary, temp, local>>

\* No record is in a worker or waiting for one.
AllSettled ==
    \A f \in DOMAIN data :
        \/ task[f] = "done"
        \/ task[f] \in {"waiting", "processed"} /\ ~data[f].proceed

\* The with-block ends: normally once the loop is through, or at any moment
\* with an exception in flight.
SessionEnd(exc, s3down, rm) ==
    /\ exc \/ AllSettled
    /\ Exit(exc, s3down, rm)

\* ------------------------------------------------------------------------
\* Specifications

\* The records for which _finalize would call delete_item.
NeedsDelete ==
    {f \in DOMAIN data : data[f].upload.finished /\ ~data[f].database.finished}

\* The keys a file can have.
KeysFor(S) == {BucketFileName(f, c) : f \in S, c \in BOOLEAN}

InitLocal(logins, lists, sniffs, dbs, buckets, locals) ==
    /\ phase = "new"
    /\ login \in logins
    /\ data_list \in lists
    /\ sniff \in sniffs
    /\ overwrite \in BOOLEAN
    /\ break_on_fail \in BOOLEAN
    /\ db \in dbs
    /\ bucket \in buckets
    /\ initial = [bucket |-> bucket, db |-> db]
    /\ data = EmptyMap
    /\ order = <<>>
    /\ failed = EmptyMap
    /\ calls = 0
    /\ last = NoCall
    /\ local \in locals
    /\ prev = [data |-> EmptyMap, bucket |-> bucket, db |-> db, local |-> local,
               temp |-> {}]
    /\ summary = NoSummary
    /\ task = [f \in Files |-> "waiting"]
    /\ temp = {}

\* A session that finds no local file of an earlier download.
InitWith(logins, lists, sniffs, dbs, buckets) ==
    InitLocal(logins, lists, sniffs, dbs, buckets, {NoLocal})

AllPlain == [f \in Files |-> "plain"]

\* One delivery session from __init__ to __exit__: a directory of two files
\* and one file given on its own; the second file of the directory is in a
\* compressed format or unreadable.
Init ==
    InitWith({FacilityPut}, {<<"d1", "f4">>},
             {[AllPlain EXCEPT !["f2"] = "packed"], [AllPlain EXCEPT !["f2"] = "ioerr"]},
             SUBSET {BucketFileName("f1", FALSE), BucketFileName("f4", FALSE)},
             SUBSET {BucketFileName("f1", FALSE), BucketFileName("f4", FALSE)})

Next ==
    \/ Construct
    \/ \E f \in Files : ProcessStart(f)
    \/ \E f \in Files, ok \in BOOLEAN : ProcessEnd(f, ok)
    \/ \E f \in Files : UploadStart(f)
    \/ \E f \in Files, ok \in BOOLEAN : UploadEnd(f, ok)
    \/ \E f \in Files, ok \in BOOLEAN : Register(f, ok)
    \/ \E exc \in BOOLEAN, s3down \in SUBSET NeedsDelete, rm \in RmOutcomes(temp) :
          SessionEnd(exc, s3down, rm)

Spec == Init /\ [][Next]_vars

\* Free sequences of public method calls on an open session over both
\* directories and the single file, which an earlier delivery has registered.
InitCalls ==
    InitWith({FacilityPut}, {<<"d1", "d2", "f4">>}, {AllPlain},
             {{BucketFileName("f4", FALSE)}}, {{}})

NextCalls ==
    \/ Construct
    \/ \E f \in Files, u \in UpdInfos : UpdateDelivery(f, u)
    \/ \E f \in Files, st \in StageArgs, started \in BOOLEAN, finished \in BOOLEAN :
          SetProgress(f, st, started, finished)
    \/ \E f \in Files, ok \in BOOLEAN : PrepUpload(f, ok)
    \/ \E f \in Files, ok \in BOOLEAN : Put(f, ok)
    \/ \E f \in Files, u \in UpdInfos : UpdateDataDict(f, u)
    \/ \E exc \in BOOLEAN, s3down \in SUBSET NeedsDelete, rm \in RmOutcomes(temp) :
          Exit(exc, s3down, rm)

SpecCalls == InitCalls /\ [][NextCalls]_vars

\* get_file_info applied to every file under every content of the two stores.
CheckFile(f, in_dir) ==
    /\ phase = "new"
    /\ last' = Called("get_file_info", f, [in_dir |-> in_dir],
                      GetFileInfo(f, in_dir, IF in_dir THEN "d1" ELSE None,
                                  sniff[f], db, bucket, overwrite))
    /\ UNCHANGED <<phase, data_list, initial, login, sniff, overwrite,
                   break_on_fail, data, order, failed, bucket, db, calls, prev,
                   summary, task, temp, local>>

InitCheck ==
    InitWith({FacilityPut}, {<<"f4">>},
             {[f \in Files |-> k] : k \in SniffKinds},
             SUBSET KeysFor({"f1", "f4"}), SUBSET KeysFor({"f1", "f4"}))

NextCheck == \E f \in Files, in_dir \in BOOLEAN : CheckFile(f, in_dir)

SpecCheck == InitCheck /\ [][NextCheck]_vars

\* ------------------------------------------------------------------------
\* do_file_checks

\* do_file_checks(file, directory_path, suffixes), with the directory_path
\* that get_file_info computes for the same file: (proceed, compressed,
\* bucketfilename, error).  self.overwrite is not read.
DoFileChecks(file, kind, dbfiles, bkt) ==
    LET snf == IsCompressed(kind, file)
        key == BucketFileName(file, snf.compressed)
        s3res == FileExistsInBucket(bkt, key)
    IN IF snf.error # NoText
       THEN [proceed |-> FALSE, compressed |-> snf.compressed,
             bucketfilename |-> NoText, error |-> snf.error]
       ELSE IF key \in dbfiles
            THEN [proceed |-> FALSE, compressed |-> snf.compressed,
                  bucketfilename |-> key, error |-> InDbError(file)]
            ELSE IF s3res.in_bucket
                 THEN [proceed |-> FALSE, compressed |-> snf.compressed,
                       bucketfilename |-> key,
                       error |-> InBucketNotDbError(file, s3res.error)]
                 ELSE [proceed |-> TRUE, compressed |-> snf.compressed,
                       bucketfilename |-> key, error |-> s3res.error]

DoCheckFile(f) ==
    /\ phase = "new"
    /\ last' = Called("do_file_checks", f, None,
                      DoFileChecks(f, sniff[f], db, bucket))
    /\ UNCHANGED <<phase, data_list, initial, login, sniff, overwrite,
                   break_on_fail, data, order, failed, bucket, db, calls, prev,
                   summary, task, temp, local>>

\* Both file checks applied to every file under every content of the two
\* stores, with and without the overwrite option.
NextBothChecks ==
    \/ \E f \in Files, in_dir \in BOOLEAN : CheckFile(f, in_dir)
    \/ \E f \in Files : DoCheckFile(f)

SpecBothChecks == InitCheck /\ [][NextBothChecks]_vars

\* __init__ alone, for every login and for input lists that are empty, name a
\* path twice or name none twice.
InitSession ==
    InitWith(Logins,
             {<<>>, <<"d1", "f4">>, <<"f4", "f4">>, <<"d1", "d1">>, <<"f4", "d1", "f4">>},
             {AllPlain}, SUBSET {BucketFileName("f4", FALSE)}, {{}})

NextSession == Construct

SpecSession == InitSession /\ [][NextSession]_vars

\* Parallel workers: put runs as two steps of its worker, the test of
\* fileinfo['proceed'] (line 1034) and the call of set_progress that marks the
\* upload as started (line 1045); steps of other workers can come in between.
PutCheck(f) ==
    /\ phase = "open"
    /\ f \in DOMAIN data
    /\ task[f] = "processed"
    /\ task' = [task EXCEPT ![f] = IF data[f].proceed THEN "admitted" ELSE "done"]
    /\ last' = Called("put", f, None,
                      IF data[f].proceed THEN None ELSE PutRefusal(data[f], f))
    /\ prev' = Snapshot
    /\ UNCHANGED <<phase, data_list, initial, login, sniff, overwrite,
                   break_on_fail, data, order, failed, bucket, db, calls, summary,
                   temp, local>>

PutBegin(f) ==
    /\ phase = "open"
    /\ f \in DOMAIN data
    /\ task[f] = "admitted"
    /\ data' = ProgressSet(data, f, "upload", TRUE, FALSE)
    /\ task' = [task EXCEPT ![f] = "uploading"]
    /\ last' = Called("set_progress", f,
                      [stage |-> "upload", started |-> TRUE, finished |-> FALSE],
                      [raised |-> FALSE])
    /\ prev' = Snapshot
    /\ UNCHANGED <<phase, data_list, initial, login, sniff, overwrite,
                   break_on_fail, order, failed, bucket, db, calls, summary, temp, local>>

\* One delivery session of a directory of two files and a single file, all
\* accepted, with the workers' steps interleaved.
InitWorkers ==
    InitWith({FacilityPut}, {<<"d1", "f4">>}, {[AllPlain EXCEPT !["f2"] = "packed"]},
             {{}}, {{}})

NextWorkers ==
    \/ Construct
    \/ \E f \in Files : ProcessStart(f)
    \/ \E f \in Files, ok \in BOOLEAN : ProcessEnd(f, ok)
    \/ \E f \in Files : PutCheck(f)
    \/ \E f \in Files : PutBegin(f)
    \/ \E f \in Files, ok \in BOOLEAN : UploadEnd(f, ok)
    \/ \E f \in Files, ok \in BOOLEAN : Register(f, ok)
    \/ \E exc \in BOOLEAN, s3down \in SUBSET NeedsDelete, rm \in RmOutcomes(temp) :
          SessionEnd(exc, s3down, rm)

SpecWorkers == InitWorkers /\ [][NextWorkers]_vars

\* The record map after the discovery of both directories and the single
\* file, none of them known to the stores.
Discovered == DataToDeliver("put", <<"d1", "d2", "f4">>, AllPlain, {}, {}, FALSE).all_files

\* The files one input path contributes, d1files being the order in which
\* the file system yields the two files of the first directory.
Expand(p, d1files) == IF p = "d1" THEN d1files ELSE IF p \in Dirs THEN Glob(p) ELSE <<p>>

\* update_delivery called once on a session in progress: the three input
\* paths given in any order, the first directory globbed in either order,
\* each upload not started or in progress.
InitOrder ==
    /\ phase = "open"
    /\ login = FacilityPut
    /\ data_list \in {dl \in [1..3 -> {"d1", "d2", "f4"}] :
                         \A p \in {"d1", "d2", "f4"} : \E i \in 1..3 : dl[i] = p}
    /\ sniff = AllPlain
    /\ overwrite = FALSE
    /\ break_on_fail \in BOOLEAN
    /\ db = {}
    /\ bucket = {}
    /\ initial = [bucket |-> bucket, db |-> db]
    /\ \E d1files \in {<<"f1", "f2">>, <<"f2", "f1">>} :
          order = Expand(data_list[1], d1files) \o Expand(data_list[2], d1files)
                     \o Expand(data_list[3], d1files)
    /\ \E up \in [Files -> {NotStarted, InProgress}] :
          data = [f \in Files |-> [Discovered[f] EXCEPT !.upload = up[f]]]
    /\ failed = EmptyMap
    /\ calls = MaxCalls - 1
    /\ last = NoCall
    /\ local = NoLocal
    /\ prev = [data |-> data, bucket |-> bucket, db |-> db, local |-> local,
               temp |-> {}]
    /\ summary = NoSummary
    /\ task = [f \in Files |-> "waiting"]
    /\ temp = {}

NextOrder == \E f \in Files, u \in UpdInfos : UpdateDelivery(f, u)

SpecOrder == InitOrder /\ [][NextOrder]_vars

\* ------------------------------------------------------------------------
\* get and finish_download

ResearcherGet == [FacilityPut EXCEPT !.method = "get", !.role = "researcher"]

\* The folder of tempdir[1] a key is downloaded into: the top folder (None),
\* which exists, for a single file.
ParentOf(key) ==
    IF \E d \in Dirs : \E i \in 1..Len(Glob(d)) : Glob(d)[i] = key[1]
    THEN CHOOSE d \in Dirs : \E i \in 1..Len(Glob(d)) : Glob(d)[i] = key[1]
    ELSE None

\* s3.files_in_bucket(key=path): the keys of the bucket under a path.
FilesInBucket(bkt, path) ==
    {k \in bkt : IF path \in Dirs THEN ParentOf(k) = path ELSE k[1] = path}

\* A test of the local path that never finds a file.
ExistsNever(files, new_path) == FALSE

\* new_path.exists()
Exists(files, new_path) == new_path \in DOMAIN files

DownloadError(key) == <<"Download failed: ">> \o key

\* What can happen to one key: the download succeeds, the download raises,
\* or the folder for it cannot be made.
KeyOutcomes == {"ok", "fail", "nomkdir"}

\* The loop of get stopping at the first download that raises.
RECURSIVE GetLoopAborting(_, _, _, _)
GetLoopAborting(listing, i, outcome, st) ==
    IF i > Len(listing) \/ st.raised # None
    THEN st
    ELSE LET key == listing[i]
             parent == ParentOf(key)
             made == parent # None /\ parent \notin st.dirs
         IN IF made /\ outcome[key] = "nomkdir"
            THEN [st EXCEPT !.raised = "SystemExit"]
            ELSE LET st1 == IF made THEN [st EXCEPT !.dirs = @ \cup {parent}] ELSE st
                 IN IF Exists(st1.files, key)
                    THEN GetLoopAborting(listing, i + 1, outcome,
                                 [st1 EXCEPT !.skipped = @ \cup {key}])
                    ELSE IF outcome[key] = "fail"
                    THEN [st1 EXCEPT !.record = (key :> [downloaded |-> FALSE,
                                                         error |-> DownloadError(key)]) @@ @,
                                     !.tried = @ \cup {key}]
                    ELSE GetLoopAborting(listing, i + 1, outcome,
                            [st1 EXCEPT !.record = (key :> [downloaded |-> TRUE,
                                                            error |-> NoText]) @@ @,
                                        !.files = (key :> "container") @@ @,
                                        !.tried = @ \cup {key},
                                        !.fetched = (key :> (IF key \in DOMAIN st1.fetched
                                                             THEN st1.fetched[key] + 1
                                                             ELSE 1)) @@ @])

\* The loop of get over the keys in the order the bucket lists them, from
\* position i: st holds the record of the requested path, the local files
\* and folders, the keys reported as skipped and the keys whose download was
\* tried.
RECURSIVE GetLoop(_, _, _, _)
GetLoop(listing, i, outcome, st) ==
    IF i > Len(listing) \/ st.raised # None
    THEN st
    ELSE LET key == listing[i]
             parent == ParentOf(key)
             made == parent # None /\ parent \notin st.dirs
         IN IF made /\ outcome[key] = "nomkdir"
            THEN [st EXCEPT !.raised = "SystemExit"]
            ELSE LET st1 == IF made THEN [st EXCEPT !.dirs = @ \cup {parent}] ELSE st
                 IN IF Exists(st1.files, key)
                    THEN GetLoop(listing, i + 1, outcome,
                                 [st1 EXCEPT !.skipped = @ \cup {key}])
                    ELSE IF outcome[key] = "fail"
                    THEN GetLoop(listing, i + 1, outcome,
                            [st1 EXCEPT !.record = (key :> [downloaded |-> FALSE,
                                                            error |-> DownloadError(key)]) @@ @,
                                        !.tried = @ \cup {key}])
                    ELSE GetLoop(listing, i + 1, outcome,
                            [st1 EXCEPT !.record = (key :> [downloaded |-> TRUE,
                                                            error |-> NoText]) @@ @,
                                        !.files = (key :> "container") @@ @,
                                        !.tried = @ \cup {key},
                                        !.fetched = (key :> (IF key \in DOMAIN st1.fetched
                                                             THEN st1.fetched[key] + 1
                                                             ELSE 1)) @@ @])

\* get(path): s3 tells whether the caller has attached a connector to the
\* session and whether its bucket exists; listing is the order in which the
\* bucket lists the keys under the path.
Get(path, s3, listing, outcome) ==
    /\ phase = "open"
    /\ login.method = "get"
    /\ calls < MaxCalls
    /\ path \in DOMAIN data
    /\ LET st == IF s3 = "ok"
                 THEN GetLoop(listing, 1, outcome,
                              [record |-> data[path], files |-> local.files,
                               dirs |-> local.dirs, fetched |-> local.fetched,
                               skipped |-> {}, tried |-> {}, raised |-> None])
                 ELSE [record |-> data[path], files |-> local.files,
                       dirs |-> local.dirs, fetched |-> local.fetched,
                       skipped |-> {}, tried |-> {},
                       raised |-> IF s3 = "unset" THEN "AttributeError" ELSE "S3Error"]
       IN /\ data' = [data EXCEPT ![path] = st.record]
          /\ local' = [files |-> st.files, dirs |-> st.dirs, fetched |-> st.fetched]
          /\ last' = Called("get", path,
                            [s3 |-> s3, listing |-> listing, outcome |-> outcome],
                            [raised |-> st.raised, skipped |-> st.skipped,
                             tried |-> st.tried])
    /\ calls' = calls + 1
    /\ prev' = Snapshot
    /\ UNCHANGED <<phase, data_list, initial, login, sniff, overwrite,
                   break_on_fail, order, failed, bucket, db, summary, task, temp>>

\* dec_file of finish_download: the path of the file without its last suffix.
DecFile(file) == SubSeq(file, 1, Len(file) - 1)

\* How lib.decrypt can end: done, or refusing the header, or refusing the
\* tag of a block after it has written the blocks before it.
DecryptOutcomes == {"ok", "header", "block"}

\* What dec_file holds after it was opened in mode 'ab+' and lib.decrypt ran.
Decrypted(files, dec, how) ==
    IF dec \in DOMAIN files
    THEN CASE how = "ok" -> "appended"
           [] how = "block" -> "appended in part"
           [] OTHER -> files[dec]
    ELSE CASE how = "ok" -> "plain"
           [] how = "block" -> "partial"
           [] OTHER -> "empty"

\* finish_download(file, recipient_sec, sender_pub) on a path of the session's
\* download folder; lib.decrypt ends as how says.
FinishDownload(file, how) ==
    /\ phase = "open"
    /\ login.method = "get"
    /\ calls < MaxCalls
    /\ IF file \notin DOMAIN local.files
       THEN /\ local' = local
            /\ last' = Called("finish_download", file, [how |-> how],
                              [raised |-> "FileNotFoundError"])
       ELSE /\ local' = [local EXCEPT
                            !.files = (DecFile(file) :> Decrypted(local.files, DecFile(file), how))
                                         @@ @]
            /\ last' = Called("finish_download", file, [how |-> how],
                              [raised |-> IF how = "ok" THEN None ELSE "CryptoError"])
    /\ calls' = calls + 1
    /\ prev' = Snapshot
    /\ UNCHANGED <<phase, data_list, initial, login, sniff, overwrite, break_on_fail,
                   data, order, failed, bucket, db, summary, task, temp>>

\* The keys of the three plain files as an upload session stored them.
StoredKeys == {BucketFileName(f, FALSE) : f \in {"f1", "f2", "f4"}}

\* What a download session can find in its folder: nothing, a container of
\* an earlier download, or a decrypted file of one.
FoundLocal ==
    {NoLocal,
     [files |-> (BucketFileName("f1", FALSE) :> "old"), dirs |-> {"d1"}, fetched |-> EmptyMap],
     [files |-> (DecFile(BucketFileName("f4", FALSE)) :> "old"), dirs |-> {},
      fetched |-> EmptyMap]}

\* An upload or a download session on one directory and one file.
InitTransfer ==
    InitLocal({FacilityPut, ResearcherGet}, {<<"d1", "f4">>}, {AllPlain}, {{}},
              {{}, StoredKeys}, FoundLocal)

NextTransfer ==
    \/ Construct
    \/ \E f \in Files, ok \in BOOLEAN : login.method = "put" /\ Put(f, ok)
    \/ \E path \in Dirs \cup Files, s3 \in {"unset", "nobucket", "ok"} :
          \E listing \in Orders(FilesInBucket(bucket, path)) :
             \E outcome \in [FilesInBucket(bucket, path) -> KeyOutcomes] :
                Get(path, s3, listing, outcome)
    \/ \E file \in StoredKeys, how \in DecryptOutcomes : FinishDownload(file, how)

SpecTransfer == InitTransfer /\ [][NextTransfer]_vars

\* ------------------------------------------------------------------------
\* DataLister: sort_projects and list_projects

MaxProjects == 3

\* A column value: None, or a value with its rank in the order of the values.
NoValue == [none |-> TRUE, v |-> 0]
Value(n) == [none |-> FALSE, v |-> n]

\* The projects an API response can hold: two Project IDs, a title that may
\* be missing, two dates of last update, two usages.
Projects ==
    [id : {Value(1), Value(2)}, title : {NoValue, Value(1)},
     updated : {Value(1), Value(2)}, gbhours : {Value(1), Value(2)}]

\* sorting_dict.get(sort_by)
SortingDict(sort_by) ==
    CASE sort_by = "id" -> "Project ID"
      [] sort_by = "title" -> "Title"
      [] sort_by = "pi" -> "PI"
      [] sort_by = "status" -> "Status"
      [] sort_by = "updated" -> "Last updated"
      [] sort_by = "size" -> "Size"
      [] sort_by = "usage" -> "GBHours"
      [] sort_by = "cost" -> "Cost"
      [] OTHER -> None

\* t[column], for the columns the projects above carry.
Column(t, column) ==
    CASE column = "Project ID" -> t.id
      [] column = "Title" -> t.title
      [] column = "Last updated" -> t.updated
      [] column = "GBHours" -> t.gbhours

\* The order of the keys (t[column] is None, t[column]).
KeyLess(a, b) ==
    \/ ~a.none /\ b.none
    \/ a.none = b.none /\ a.v < b.v

\* x goes before y in the sorted list whatever their places in the input.
Before(x, y, column, reverse) ==
    IF reverse
    THEN KeyLess(Column(y, column), Column(x, column))
    ELSE KeyLess(Column(x, column), Column(y, column))

\* x put into a sorted list behind every element that does not go after it.
RECURSIVE Insert(_, _, _, _, _)
Insert(x, sorted, i, column, reverse) ==
    IF i > Len(sorted)
    THEN Append(sorted, x)
    ELSE IF Before(x, sorted[i], column, reverse)
         THEN SubSeq(sorted, 1, i - 1) \o <<x>> \o SubSeq(sorted, i, Len(sorted))
         ELSE Insert(x, sorted, i + 1, column, reverse)

\* sorted(projects, key=..., reverse=...): a stable sort, also when reversed.
RECURSIVE Sorted(_, _, _)
Sorted(projects, column, reverse) ==
    IF projects = <<>>
    THEN <<>>
    ELSE Insert(projects[Len(projects)],
                Sorted(SubSeq(projects, 1, Len(projects) - 1), column, reverse),
                1, column, reverse)

\* sort_by.lower()
Lower(sort_by) == IF sort_by = "Updated" THEN "updated" ELSE sort_by

\* sort_projects(projects, sort_by)
SortProjects(projects, sort_by, show_usage) ==
    LET lower == Lower(sort_by)
        allowed == IF lower \in {"usage", "cost"} /\ ~show_usage THEN "updated" ELSE lower
        sorted_projects == Sorted(projects, "Project ID", FALSE)
        column == SortingDict(allowed)
    IN IF column # None
       THEN Sorted(sorted_projects, column, column = "Last updated")
       ELSE sorted_projects

\* The test of project_info that takes a missing entry only for no info.
NoProjectInfoMissingOnly(resp) == ~resp.has_info

\* not project_info: no such entry in the response, or an empty list.
NoProjectInfo(resp) == ~resp.has_info \/ resp.project_info = <<>>

NoDataError == <<"No project info was retrieved", ". No files to list.">>

\* What list_projects does with a response: the exception it raises, the
\* rows of the table it prints and the list it returns.
ListedProjects(resp, sort_by, show_usage) ==
    LET nothing == [raised |-> None, message |-> NoText, printed |-> FALSE,
                    rows |-> <<>>, returned |-> <<>>]
    IN CASE resp.kind = "unreachable" -> [nothing EXCEPT !.raised = "ApiRequestError"]
         [] resp.kind = "refused" -> [nothing EXCEPT !.raised = "APIError"]
         [] resp.kind = "undecodable" -> [nothing EXCEPT !.raised = "APIError"]
         [] OTHER ->
              IF NoProjectInfo(resp)
              THEN [nothing EXCEPT !.raised = "NoDataError", !.message = NoDataError]
              ELSE LET sorted_projects ==
                          SortProjects(resp.project_info, sort_by, show_usage)
                   IN [nothing EXCEPT !.printed = TRUE,
                                      !.rows = sorted_projects,
                                      !.returned = sorted_projects]

\* list_projects(sort_by), or list_projects() when no sort option is given.
ListProjects(resp, sort_by, show_usage) ==
    /\ last' = Called("list_projects", None,
                      [resp |-> resp, sort_by |-> sort_by, show_usage |-> show_usage],
                      ListedProjects(resp, IF sort_by = None THEN "Updated" ELSE sort_by,
                                     show_usage))
    /\ UNCHANGED <<phase, data_list, initial, login, sniff, overwrite, break_on_fail,
                   data, order, failed, bucket, db, calls, prev, summary, task, temp,
                   local>>

\* The responses of the API: none, a refusal, a body that is not JSON, a
\* body without project_info, or one with up to MaxProjects projects.
Responses ==
    {[kind |-> k, has_info |-> FALSE, project_info |-> <<>>] :
        k \in {"unreachable", "refused", "undecodable", "json"}}
    \cup {[kind |-> "json", has_info |-> TRUE, project_info |-> pi] :
             pi \in UNION {[1..n -> Projects] : n \in 0..MaxProjects}}

\* The sort options: none given, four of the columns, and a word that names
\* no column.
SortOptions == {None, "id", "title", "updated", "usage", "colour"}

InitList ==
    /\ InitWith({FacilityPut}, {<<"f4">>}, {AllPlain}, {{}}, {{}})
    /\ ~overwrite
    /\ ~break_on_fail

\* A listing command calls list_projects once.
NextList ==
    /\ last = NoCall
    /\ \E resp \in Responses, sort_by \in SortOptions, show_usage \in BOOLEAN :
          ListProjects(resp, sort_by, show_usage)

SpecList == InitList /\ [][NextList]_vars

\* ------------------------------------------------------------------------
\* update_delivery and set_progress on a session in progress

\* The record map after the discovery of one directory and one single file.
DiscoveredPair == DataToDeliver("put", <<"d1", "f4">>, AllPlain, {}, {}, FALSE)

\* A session in progress: earlier set_progress calls have left the upload
\* and the database stage of the first file of the directory and of the
\* single file not started or finished; nothing has failed so far.
InitStages ==
    /\ phase = "open"
    /\ login = FacilityPut
    /\ data_list = <<"d1", "f4">>
    /\ sniff = AllPlain
    /\ overwrite = FALSE
    /\ break_on_fail \in BOOLEAN
    /\ db = {}
    /\ bucket = {}
    /\ initial = [bucket |-> bucket, db |-> db]
    /\ order = DiscoveredPair.order
    /\ \E up \in [{"f1", "f4"} -> {NotStarted, Finished}] :
       \E reg \in [{"f1", "f4"} -> {NotStarted, Finished}] :
          data = [f \in DOMAIN DiscoveredPair.all_files |->
                    IF f \in {"f1", "f4"}
                    THEN [DiscoveredPair.all_files[f] EXCEPT !.upload = up[f],
                                                             !.database = reg[f]]
                    ELSE DiscoveredPair.all_files[f]]
    /\ failed = EmptyMap
    /\ calls = 0
    /\ last = NoCall
    /\ local = NoLocal
    /\ temp = {}
    /\ prev = [data |-> data, bucket |-> bucket, db |-> db, local |-> local,
               temp |-> temp]
    /\ summary = NoSummary
    /\ task = [f \in Files |-> "waiting"]

NextStages ==
    \/ \E f \in Files, u \in UpdInfos : UpdateDelivery(f, u)
    \/ \E f \in Files, st \in StageArgs, started \in BOOLEAN, finished \in BOOLEAN :
          SetProgress(f, st, started, finished)
    \/ \E s3down \in SUBSET NeedsDelete : Exit(FALSE, s3down, NoRemoval)

SpecStages == InitStages /\ [][NextStages]_vars

\* ------------------------------------------------------------------------
\* __init__ up to _check_user_input

\* What the config option can be: not given (None), a path that cannot be
\* opened, a file lacking one of username, password and project, a file
\* with the three of them, a file that names the owner as well.
Configs == {None, "unreadable", "incomplete", "complete", "with owner"}

\* The options of a call: which of them are given, and the calling method.
UserInputs ==
    [config : Configs, username : BOOLEAN, password : BOOLEAN,
     project_id : BOOLEAN, project_owner : BOOLEAN, method : Methods]

\* Path(config).resolve() and the reading of the file, lines 251-274.
ConfigFile(inp) ==
    CASE inp.config = None -> [raised |-> "TypeError", owner |-> None]
      [] inp.config = "unreadable" -> [raised |-> "SystemExit", owner |-> None]
      [] inp.config = "incomplete" ->
            [raised |-> "DeliveryOptionException", owner |-> None]
      [] inp.config = "with owner" -> [raised |-> None, owner |-> "config"]
      [] OTHER ->
            IF ~inp.project_owner /\ inp.method = "put"
            THEN [raised |-> "DeliveryOptionException", owner |-> None]
            ELSE [raised |-> None,
                  owner |-> IF inp.project_owner THEN "option" ELSE None]

\* _check_user_input(config): the exception it raises and where
\* self.project_owner comes from when it returns.
CheckUserInput(inp) ==
    IF inp.config = None
    THEN IF ~(inp.username /\ inp.password)
         THEN [raised |-> "DeliveryOptionException", owner |-> None]
         ELSE IF ~inp.project_id
              THEN [raised |-> "DeliveryOptionException", owner |-> None]
              ELSE IF ~inp.project_owner
                   THEN [raised |-> None, owner |-> "username"]
                   ELSE ConfigFile(inp)
    ELSE ConfigFile(inp)

\* __init__ from its first test of the credentials to the return of
\* _check_user_input, lines 89-112.
UserInputChecked(inp) ==
    IF ~inp.username /\ ~inp.password /\ inp.config = None
    THEN [raised |-> "DeliverySystemException", owner |-> None]
    ELSE CheckUserInput(inp)

CheckInput(inp) ==
    /\ last' = Called("_check_user_input", None, inp, UserInputChecked(inp))
    /\ UNCHANGED <<phase, data_list, initial, login, sniff, overwrite, break_on_fail,
                   data, order, failed, bucket, db, calls, prev, summary, task, temp,
                   local>>

InitInput ==
    /\ InitWith({FacilityPut}, {<<"f4">>}, {AllPlain}, {{}}, {{}})
    /\ ~overwrite
    /\ ~break_on_fail

\* One construction of a session.
NextInput ==
    /\ last = NoCall
    /\ \E inp \in UserInputs : CheckInput(inp)

SpecInput == InitInput /\ [][NextInput]_vars

\* ------------------------------------------------------------------------
\* DDSBaseClass, DataLister and DataRemover: construction

DDS_METHODS == {"put", "get", "ls", "rm"}
DDS_KEYS_REQUIRED_METHODS == {"put", "get"}

\* The methods a caller can name: the four of the system and one it lacks.
AttemptedMethods == DDS_METHODS \cup {"mv"}

\* The requests __init__ sends once the method is accepted, in their order,
\* and the exception that ends it: the authentication, then for put the
\* storage keys, then the public and for get the private project key.
Requested(method, authenticate, auth_ok, keys_ok) ==
    LET auth == IF authenticate THEN <<"token">> ELSE <<>>
        keys == (IF method = "put" THEN <<"storage keys">> ELSE <<>>)
                   \o <<"public key">>
                   \o (IF method = "get" THEN <<"private key">> ELSE <<>>)
    IN IF authenticate /\ ~auth_ok
       THEN [raised |-> "AuthenticationError", sent |-> auth]
       ELSE IF method \notin DDS_KEYS_REQUIRED_METHODS
            THEN [raised |-> None, sent |-> auth]
            ELSE IF ~authenticate
                 THEN [raised |-> "AttributeError", sent |-> auth]
                 ELSE IF ~keys_ok
                      THEN [raised |-> "DDSCLIException",
                            sent |-> auth \o SubSeq(keys, 1, 1)]
                      ELSE [raised |-> None, sent |-> auth \o keys]

\* DDSBaseClass.__init__ testing the method after it has sent its requests.
BaseInitCheckLast(method, authenticate, method_check, auth_ok, keys_ok) ==
    LET r == Requested(method, authenticate, auth_ok, keys_ok)
    IN IF r.raised = None /\ method_check /\ method \notin DDS_METHODS
       THEN [r EXCEPT !.raised = "InvalidMethodError"]
       ELSE r

\* DDSBaseClass.__init__
BaseInit(method, authenticate, method_check, auth_ok, keys_ok) ==
    IF method_check /\ method \notin DDS_METHODS
    THEN [raised |-> "InvalidMethodError", sent |-> <<>>]
    ELSE Requested(method, authenticate, auth_ok, keys_ok)

\* super().__init__(username=..., config=config, project=..., method=...)
\* as DataLister and DataRemover call it: __init__ of the base class has no
\* parameter named config, so the call raises TypeError before its body runs.
SuperInit(method, auth_ok, keys_ok) ==
    IF "config" \notin {"username", "project", "dds_directory", "method", "authenticate",
                        "method_check", "force_renew_token", "no_prompt"}
    THEN [raised |-> "TypeError", sent |-> <<>>]
    ELSE BaseInit(method, TRUE, TRUE, auth_ok, keys_ok)

\* DataLister.__init__
ListerInit(method, auth_ok, keys_ok) ==
    IF method # "ls"
    THEN [raised |-> "InvalidMethodError", sent |-> <<>>]
    ELSE SuperInit(method, auth_ok, keys_ok)

\* DataRemover.__init__
RemoverInit(method, auth_ok, keys_ok) ==
    LET r == SuperInit(method, auth_ok, keys_ok)
    IN IF r.raised = None /\ method # "rm"
       THEN [r EXCEPT !.raised = "SystemExit"]
       ELSE r

\* The constructions a caller can attempt; DataLister and DataRemover leave
\* authenticate and method_check at their defaults.
Constructions ==
    [class : {"DDSBaseClass"}, method : AttemptedMethods, authenticate : BOOLEAN,
     method_check : BOOLEAN, auth_ok : BOOLEAN, keys_ok : BOOLEAN]
    \cup [class : {"DataLister", "DataRemover"}, method : AttemptedMethods,
          authenticate : {TRUE}, method_check : {TRUE}, auth_ok : BOOLEAN,
          keys_ok : BOOLEAN]

Constructed(c) ==
    CASE c.class = "DataLister" -> ListerInit(c.method, c.auth_ok, c.keys_ok)
      [] c.class = "DataRemover" -> RemoverInit(c.method, c.auth_ok, c.keys_ok)
      [] OTHER -> BaseInit(c.method, c.authenticate, c.method_check, c.auth_ok,
                           c.keys_ok)

ConstructClass(c) ==
    /\ last' = Called("__init__", c.class, c, Constructed(c))
    /\ UNCHANGED <<phase, data_list, initial, login, sniff, overwrite, break_on_fail,
                   data, order, failed, bucket, db, calls, prev, summary, task, temp,
                   local>>

InitClass ==
    /\ InitWith({FacilityPut}, {<<"f4">>}, {AllPlain}, {{}}, {{}})
    /\ ~overwrite
    /\ ~break_on_fail

\* One construction of one object.
NextClass ==
    /\ last = NoCall
    /\ \E c \in Constructions : ConstructClass(c)

SpecClass == InitClass /\ [][NextClass]_vars

\* ------------------------------------------------------------------------
\* DataLister.list_recursive

MaxDepth == 2

\* The names a file or folder can have, and their place in the sort order.
Names == {"a", "b"}
NameRank(n) == IF n = "a" THEN 1 ELSE 2

\* The remote trees of a project with folders nested up to d deep: under
\* each name nothing, a file, or a folder that holds something (the object
\* store knows a folder only as the prefix of a key).
RECURSIVE RemoteTrees(_)
RemoteTrees(d) ==
    LET held == [kind : {"nothing"}, children : {{}}]
                   \cup [kind : {"file"}, children : {{}}]
                   \cup (IF d = 0
                         THEN {}
                         ELSE [kind : {"folder"}, children : RemoteTrees(d - 1) \ {{}}])
    IN {{[name |-> n, folder |-> under[n].kind = "folder", size |-> "1 B",
          children |-> under[n].children] : n \in {m \in Names : under[m].kind # "nothing"}} :
           under \in [Names -> held]}

\* What the API answers to a list request: the entries of the folder at
\* subpath, none if there is no such folder.
RECURSIVE ListFiles(_, _)
ListFiles(remote, subpath) ==
    IF subpath = <<>>
    THEN remote
    ELSE IF \E x \in remote : x.folder /\ x.name = subpath[1]
         THEN ListFiles((CHOOSE x \in remote : x.folder /\ x.name = subpath[1]).children,
                        Tail(subpath))
         ELSE {}

\* sorted(resp_json["files_folders"], key=lambda f: f["name"])
SortedByName(files_folders) ==
    CHOOSE ord \in Orders(files_folders) :
        \A i \in 1..Len(ord) : \A j \in 1..Len(ord) :
            i < j => NameRank(ord[i].name) <= NameRank(ord[j].name)

\* A subpath with the name put in front of the folder's path.
JoinInFront(folder, name) == <<name>> \o folder

\* os.path.join(folder, f["name"]) if folder else f["name"]; the empty path
\* stands for the subpath None of the root.
Join(folder, name) == folder \o <<name>>

\* _construct_file_tree(folder, basename) and its loop over the sorted
\* entries from position i: the FileTree built, the subpaths of the list
\* requests sent so far, and the exception that ended it.
RECURSIVE ConstructFileTree(_, _, _, _, _)
RECURSIVE ConstructLoop(_, _, _, _, _, _)
ConstructFileTree(remote, folder, basename, show_size, sent) ==
    LET sorted_files_folders == SortedByName(ListFiles(remote, folder))
        requested == Append(sent, folder)
    IN IF sorted_files_folders = <<>>
       THEN [tree |-> [name |-> basename, folder |-> TRUE, size |-> None,
                       subtrees |-> <<>>],
             sent |-> requested, raised |-> "NoDataError"]
       ELSE ConstructLoop(remote, folder, sorted_files_folders, 1, show_size,
                          [tree |-> [name |-> basename, folder |-> TRUE, size |-> None,
                                     subtrees |-> <<>>],
                           sent |-> requested, raised |-> None])

ConstructLoop(remote, folder, sorted_files_folders, i, show_size, st) ==
    IF i > Len(sorted_files_folders) \/ st.raised # None
    THEN st
    ELSE LET f == sorted_files_folders[i]
         IN IF ~f.folder
            THEN ConstructLoop(remote, folder, sorted_files_folders, i + 1, show_size,
                    [st EXCEPT !.tree.subtrees =
                        Append(@, [name |-> f.name, folder |-> FALSE,
                                   size |-> IF show_size THEN f.size ELSE None,
                                   subtrees |-> <<>>])])
            ELSE LET sub == ConstructFileTree(remote, Join(folder, f.name), f.name,
                                              show_size, st.sent)
                 IN ConstructLoop(remote, folder, sorted_files_folders, i + 1, show_size,
                       [tree |-> [st.tree EXCEPT !.subtrees = Append(@, sub.tree)],
                        sent |-> sub.sent,
                        raised |-> sub.raised])

\* list_recursive(show_size) on a project whose remote tree is remote.
ListRecursive(remote, show_size) ==
    /\ last' = Called("list_recursive", None,
                      [remote |-> remote, show_size |-> show_size],
                      ConstructFileTree(remote, <<>>, "project", show_size, <<>>))
    /\ UNCHANGED <<phase, data_list, initial, login, sniff, overwrite, break_on_fail,
                   data, order, failed, bucket, db, calls, prev, summary, task, temp,
                   local>>

InitTree ==
    /\ InitWith({FacilityPut}, {<<"f4">>}, {AllPlain}, {{}}, {{}})
    /\ ~overwrite
    /\ ~break_on_fail

\* One listing command on one project: without sizes on every tree, with
\* sizes on the trees one folder deep.
NextTree ==
    /\ last = NoCall
    /\ \E show_size \in BOOLEAN :
          \E remote \in RemoteTrees(IF show_size THEN 1 ELSE MaxDepth) :
             ListRecursive(remote, show_size)

SpecTree == InitTree /\ [][NextTree]_vars

\* ------------------------------------------------------------------------
\* The container format (cli_code.crypt4gh lib.encrypt and lib.decrypt)

\* The plaintext chunk size of one data block.
ChunkSize == 3

ByteMod == 256

\* The plaintext sizes around the chunk boundary.
PlainSizes == {0, 1, ChunkSize - 1, ChunkSize, ChunkSize + 1, 10 * ChunkSize}

\* A plaintext of the given size: the bytes seed, seed + step, ...
Plaintext(size, seed, step) ==
    [i \in 1..size |-> (seed + step * (i - 1)) % ByteMod]

KeyPairs == {"sender", "recipient", "other"}

DataKeys == {1, 200}

StartNonces == {0, 5}

\* The X25519 shared secret of one side's private and the other's public key.
SharedSecret(private, public) == {private, public}

Magic == "crypt4gh"

Version == 1

\* The header packet: the data key and the starting nonce wrapped under the
\* shared secret.
HeaderPacket(shared, data_key, nonce) ==
    [wrapped_by |-> shared, data_key |-> data_key, nonce |-> nonce]

RECURSIVE SumOf(_)
SumOf(bytes) ==
    IF bytes = <<>> THEN 0 ELSE Head(bytes) + SumOf(Tail(bytes))

\* The 16-byte authentication tag of one block.
Tag(data_key, nonce, ciphertext) ==
    (7 * data_key + 13 * nonce + 3 * Len(ciphertext) + SumOf(ciphertext)) % 65536

KeyStream(data_key, nonce, i) == (data_key + 31 * nonce + i) % ByteMod

\* One data block: the ciphertext of the chunk followed by its tag.
Seal(chunk, data_key, nonce) ==
    LET ct == [i \in 1..Len(chunk) |->
                  (chunk[i] + KeyStream(data_key, nonce, i)) % ByteMod]
    IN [ciphertext |-> ct, tag |-> Tag(data_key, nonce, ct)]

Verifies(block, data_key, nonce) ==
    block.tag = Tag(data_key, nonce, block.ciphertext)

Open(block, data_key, nonce) ==
    [i \in 1..Len(block.ciphertext) |->
        (block.ciphertext[i] + ByteMod - KeyStream(data_key, nonce, i)) % ByteMod]

\* The nonce of the block at a position: the counter from the starting nonce.
BlockNonce(start, position) == start + position

\* The next chunk of the stream and what is left after it.
Take(stream) ==
    SubSeq(stream, 1, IF Len(stream) < ChunkSize THEN Len(stream) ELSE ChunkSize)

DropOneMore(stream) == SubSeq(stream, ChunkSize + 2, Len(stream))

Drop(stream) == SubSeq(stream, ChunkSize + 1, Len(stream))

RECURSIVE EncryptChunks(_, _, _, _)
EncryptChunks(stream, data_key, start, position) ==
    IF stream = <<>>
    THEN <<>>
    ELSE <<Seal(Take(stream), data_key, BlockNonce(start, position))>>
         \o EncryptChunks(Drop(stream), data_key, start, position + 1)

\* encrypt(plaintext_stream, recipient_public_key, sender_private_key)
EncryptStream(plaintext, recipient_public, sender_private, data_key, nonce) ==
    [magic |-> Magic,
     version |-> Version,
     packets |-> <<HeaderPacket(SharedSecret(sender_private, recipient_public),
                                data_key, nonce)>>,
     blocks |-> EncryptChunks(plaintext, data_key, nonce, 0)]

\* The blocks decrypted in order up to the first whose tag does not verify.
RECURSIVE DecryptBlocks(_, _, _, _, _)
DecryptBlocks(blocks, data_key, start, position, out) ==
    IF blocks = <<>>
    THEN [raised |-> None, plaintext |-> out]
    ELSE IF ~Verifies(Head(blocks), data_key, BlockNonce(start, position))
         THEN [raised |-> "CryptoError", plaintext |-> out]
         ELSE DecryptBlocks(Tail(blocks), data_key, start, position + 1,
                            out \o Open(Head(blocks), data_key,
                                        BlockNonce(start, position)))

\* decrypt(container_stream, recipient_private_key, sender_public_key)
DecryptStream(container, recipient_private, sender_public) ==
    IF container.magic # Magic \/ container.version # Version
       \/ container.packets = <<>>
    THEN [raised |-> "FormatError", plaintext |-> <<>>]
    ELSE LET packet == container.packets[1]
         IN IF packet.wrapped_by # SharedSecret(recipient_private, sender_public)
            THEN [raised |-> "CryptoError", plaintext |-> <<>>]
            ELSE DecryptBlocks(container.blocks, packet.data_key, packet.nonce,
                               0, <<>>)

Encrypt(plaintext, data_key, nonce) ==
    /\ last' = Called("encrypt", None,
                      [plaintext |-> plaintext, recipient |-> "recipient",
                       sender |-> "sender"],
                      EncryptStream(plaintext, "recipient", "sender", data_key,
                                    nonce))
    /\ UNCHANGED <<phase, data_list, initial, login, sniff, overwrite,
                   break_on_fail, data, order, failed, bucket, db, calls, prev,
                   summary, task, temp, local>>

\* The container just written is read back; last.arg keeps what went in.
Decrypt(recipient_private, sender_public) ==
    /\ last.op = "encrypt"
    /\ last' = Called("decrypt", None,
                      [plaintext |-> last.arg.plaintext,
                       matching |-> recipient_private = last.arg.recipient
                                    /\ sender_public = last.arg.sender,
                       blocks |-> Len(last.ret.blocks)],
                      DecryptStream(last.ret, recipient_private, sender_public))
    /\ UNCHANGED <<phase, data_list, initial, login, sniff, overwrite,
                   break_on_fail, data, order, failed, bucket, db, calls, prev,
                   summary, task, temp, local>>

InitCipher ==
    /\ InitWith({FacilityPut}, {<<"f4">>}, {AllPlain}, {{}}, {{}})
    /\ ~overwrite
    /\ ~break_on_fail

NextCipher ==
    \/ /\ last = NoCall
       /\ \E size \in PlainSizes, seed \in {0, 250}, step \in {0, 1, 7},
             data_key \in DataKeys, nonce \in StartNonces :
             Encrypt(Plaintext(size, seed, step), data_key, nonce)
    \/ \E recipient_private \in KeyPairs \ {"sender"}, sender_public \in {"sender"} :
          Decrypt(recipient_private, sender_public)

SpecCipher == InitCipher /\ [][NextCipher]_vars

\* ------------------------------------------------------------------------
\* Properties

\* C1: for every combination of in_db, in_bucket and overwrite, a file whose
\* header could be read is accepted by get_file_info (proceed = true) exactly
\* when (not in_db and not in_bucket) or (in_db and overwrite); a key in the
\* bucket but not in the database is rejected whatever overwrite is.
C1_ExistenceMatrix ==
    (last.op = "get_file_info" /\ sniff[last.file] # "ioerr") =>
        LET in_db == KeyOf(last.file) \in db
            in_bucket == KeyOf(last.file) \in bucket
        IN last.ret.proceed <=>
              ((~in_db /\ ~in_bucket) \/ (in_db /\ overwrite))

\* C1 witness: the check has rejected a key that is in the bucket and not in
\* the database although overwrite is set.
C1_Witness ==
    /\ last.op = "get_file_info"
    /\ sniff[last.file] # "ioerr"
    /\ KeyOf(last.file) \in bucket
    /\ KeyOf(last.file) \notin db
    /\ overwrite
    /\ ~last.ret.proceed

\* The last call was update_delivery cancelling a record (proceed = false).
Cancelling ==
    /\ phase = "open"
    /\ last.op = "update_delivery"
    /\ ~last.arg.proceed

\* p was, before the last call, another record of the directory group of the
\* record the call was made for.
SiblingOfLast(p) ==
    /\ p \in DOMAIN prev.data
    /\ p # last.file
    /\ prev.data[last.file].in_directory
    /\ prev.data[p].in_directory
    /\ prev.data[p].dir_name = prev.data[last.file].dir_name

UploadStarted(info) == info.upload.in_progress \/ info.upload.finished

\* A record carries the cascade message of the last call: the failing file's
\* path and the error text reported for it.
RefersToLast(info) ==
    /\ Contains(info.error, <<last.file>>)
    /\ Contains(info.error, last.arg.error)
    /\ Len(info.error) > Len(last.arg.error)

\* C4: when update_delivery cancels a record of a directory group with
\* break_on_fail enabled and before that record's upload has started, every
\* record of the group whose upload is neither in progress nor finished (the
\* failing record included) has proceed = false and an error text containing
\* the failing file's path and its error text.
C4_CascadeCancelsGroup ==
    (/\ Cancelling
     /\ break_on_fail
     /\ prev.data[last.file].in_directory
     /\ ~UploadStarted(prev.data[last.file])) =>
        \A p \in DOMAIN data :
            (/\ p = last.file \/ SiblingOfLast(p)
             /\ ~UploadStarted(prev.data[p])) =>
                /\ ~data[p].proceed
                /\ RefersToLast(data[p])

\* C4 witness: a cascade has cancelled a sibling that was still to proceed,
\* with a non-empty error text reported for the failing file.
C4_Witness ==
    /\ Cancelling
    /\ break_on_fail
    /\ ~UploadStarted(prev.data[last.file])
    /\ last.arg.error # NoText
    /\ \E p \in DOMAIN data :
          /\ SiblingOfLast(p)
          /\ prev.data[p].proceed
          /\ ~data[p].proceed
          /\ RefersToLast(data[p])

\* C6: update_delivery cancelling a record changes neither proceed nor error
\* of a record outside its directory group, whatever break_on_fail is; with
\* break_on_fail disabled, or for a record that is in no directory group, it
\* changes no other record's proceed or error at all.
C6_OtherGroupsUntouched ==
    Cancelling =>
        \A p \in DOMAIN data \ {last.file} :
            (\/ ~SiblingOfLast(p)
             \/ ~break_on_fail
             \/ ~prev.data[last.file].in_directory) =>
                /\ data[p].proceed = prev.data[p].proceed
                /\ data[p].error = prev.data[p].error

\* C6 witness: a cascade has cancelled a sibling while a record of another
\* directory and a single file, both with their upload not started, are still
\* to proceed.
C6_Witness ==
    /\ Cancelling
    /\ break_on_fail
    /\ \E p \in DOMAIN data : SiblingOfLast(p) /\ prev.data[p].proceed /\ ~data[p].proceed
    /\ \E q \in DOMAIN data :
          /\ data[q].in_directory
          /\ ~SiblingOfLast(q)
          /\ q # last.file
          /\ ~UploadStarted(data[q])
          /\ data[q].proceed
    /\ \E r \in DOMAIN data : ~data[r].in_directory /\ ~UploadStarted(data[r]) /\ data[r].proceed

\* C7: a cascade leaves every sibling whose upload is in progress or finished
\* as it was: proceed, error and all stage flags.
C7_UploadingSiblingsUntouched ==
    (Cancelling /\ break_on_fail) =>
        \A p \in DOMAIN data :
            (SiblingOfLast(p) /\ UploadStarted(prev.data[p])) =>
                data[p] = prev.data[p]

\* C7 witness: a cascade has cancelled the failing record itself while a
\* sibling that is uploading keeps proceed = true.
C7_Witness ==
    /\ Cancelling
    /\ break_on_fail
    /\ ~data[last.file].proceed
    /\ RefersToLast(data[last.file])
    /\ \E p \in DOMAIN data :
          /\ SiblingOfLast(p)
          /\ prev.data[p].upload.in_progress
          /\ data[p].proceed

C9_FailingRecordCancelled ==
    Cancelling =>
        /\ ~data[last.file].proceed
        /\ Contains(data[last.file].error, last.arg.error)

\* C10: cancellation is terminal: a record with proceed = false before a call
\* of update_delivery, update_data_dict, set_progress, prep_upload or put
\* does not have proceed = true after it.
C10_CancellationTerminal ==
    (phase = "open" /\ last.op \in {"update_delivery", "update_data_dict",
                                    "set_progress", "prep_upload", "put"}) =>
        \A f \in DOMAIN prev.data :
            ~prev.data[f].proceed => ~data[f].proceed

\* The keys of the records __exit__ handed to _finalize with the upload
\* finished and the registration not, and with the registration finished and
\* the upload not.
UploadedOnlyKeys ==
    {data[f].new_file : f \in {g \in summary.finalized :
        data[g].upload.finished /\ ~data[g].database.finished}}

RegisteredOnlyKeys ==
    {data[f].new_file : f \in {g \in summary.finalized :
        data[g].database.finished /\ ~data[g].upload.finished}}

\* C3: with the stores' delete operations succeeding, _finalize removes the
\* key of a record with upload finished and registration not finished from
\* the object store, removes the entry of a record with registration
\* finished and upload not finished from the metadata store, and changes
\* neither store for any other record.
C3_FinalizeCompensates ==
    (/\ phase = "closed"
     /\ ~last.arg.exc
     /\ last.arg.s3down = {}
     /\ last.ret.raised = None) =>
        /\ bucket = prev.bucket \ UploadedOnlyKeys
        /\ db = prev.db \ RegisteredOnlyKeys

\* C2: after __exit__, on any exit path and with or without overwrite, the
\* key of every record that the two stores agreed on when the session started
\* is in the object store if and only if it is in the metadata store.
C2_StoresAgreeAfterExit ==
    phase = "closed" =>
        \A f \in DOMAIN data :
            ((data[f].new_file \in initial.bucket) <=> (data[f].new_file \in initial.db)) =>
                ((data[f].new_file \in bucket) <=> (data[f].new_file \in db))

\* The files of directory d that discovery rejected in the existence check.
RejectedByCheck(d) ==
    {f \in Files : /\ \E i \in 1..Len(Glob(d)) : Glob(d)[i] = f
                   /\ f \in DOMAIN failed
                   /\ f \notin DOMAIN data
                   /\ sniff[f] # "ioerr"}

InDir(d) == {f \in DOMAIN data : data[f].in_directory /\ data[f].dir_name = d}

\* C5: for a directory given as input of which the existence check rejected
\* a file, and in which no other failure occurred during the delivery: with
\* break_on_fail every file of the directory ends with proceed = false and an
\* error naming a rejected file; without break_on_fail the other files of the
\* directory end delivered.
C5_RejectionCascades ==
    (phase = "closed" /\ summary.printed) =>
        \A d \in Dirs :
            (RejectedByCheck(d) # {} /\ d \notin DOMAIN failed) =>
                \A g \in InDir(d) :
                    IF break_on_fail
                    THEN /\ ~data[g].proceed
                         /\ \E r \in RejectedByCheck(d) : Contains(data[g].error, <<r>>)
                    ELSE Delivered(data[g])

\* The last call was one of the methods that work on a record of the open
\* session.
RecordCall ==
    /\ phase = "open"
    /\ last.op \in {"update_delivery", "update_data_dict", "set_progress",
                    "prep_upload", "put"}

\* C11: every record with proceed = false has a non-empty error text, also
\* after update_delivery has cancelled it with the error text that prep_upload
\* or put reported.
C11_CancelledHasError ==
    phase = "open" =>
        \A f \in DOMAIN data : ~data[f].proceed => data[f].error # NoText

\* C12: stage completion is monotonic: a stage that was finished before a
\* call is finished and not in progress after it.
C12_StageCompletionMonotonic ==
    RecordCall =>
        \A f \in DOMAIN prev.data : \A st \in Stages :
            prev.data[f][st].finished =>
                /\ data[f][st].finished
                /\ ~data[f][st].in_progress

\* C13: stage order is enforced: a call moves upload to in progress only if
\* processing was finished, database to in progress only if upload was
\* finished, and a stage to finished only if it was in progress; put changes
\* neither the upload flags nor the bucket for a record whose processing is
\* not finished.
C13_StageOrderEnforced ==
    RecordCall =>
        \A f \in DOMAIN prev.data :
            /\ (data[f].upload.in_progress /\ ~prev.data[f].upload.in_progress)
                  => prev.data[f].processing.finished
            /\ (data[f].database.in_progress /\ ~prev.data[f].database.in_progress)
                  => prev.data[f].upload.finished
            /\ \A st \in Stages :
                  (data[f][st].finished /\ ~prev.data[f][st].finished)
                      => prev.data[f][st].in_progress
            /\ (last.op = "put" /\ last.file = f /\ ~prev.data[f].processing.finished)
                  => /\ data[f].upload = prev.data[f].upload
                     /\ bucket = prev.bucket

\* C14: in every state of an open or closed session and for each of the three
\* stages of every record, in_progress and finished are not both true.
C14_FlagsExclusive ==
    phase \in {"open", "closed"} =>
        \A f \in DOMAIN data : \A st \in Stages :
            ~(data[f][st].in_progress /\ data[f][st].finished)

\* C14 witness: set_progress has been called on a finished stage with both
\* started and finished set, and the stage is in progress and not finished.
C14_Witness ==
    /\ phase = "open"
    /\ last.op = "set_progress"
    /\ last.arg.stage # ""
    /\ last.arg.started
    /\ last.arg.finished
    /\ prev.data[last.file][last.arg.stage] = Finished
    /\ data[last.file][last.arg.stage] = InProgress

\* C15: every item the summary of __exit__ lists as delivered has a record
\* with proceed = true and all three stages finished.
C15_DeliveredAllStagesFinished ==
    (phase = "closed" /\ ~last.arg.exc) =>
        \A item \in summary.succeeded :
            \E f \in DOMAIN data :
                /\ Item(data, f) = item
                /\ data[f].proceed
                /\ \A st \in Stages : data[f][st].finished

\* The files the input list names, directly or through a directory.
InputFiles ==
    {f \in Files : \E i \in 1..Len(data_list) :
        \/ data_list[i] = f
        \/ \E k \in 1..Len(Glob(data_list[i])) : Glob(data_list[i])[k] = f}

\* The row of the summary an input file belongs to: its directory, or the
\* file itself when it is given on its own.
InputItem(f) ==
    IF \E i \in 1..Len(data_list) : data_list[i] = f
    THEN f
    ELSE CHOOSE d \in Dirs : \E k \in 1..Len(Glob(d)) : Glob(d)[k] = f

\* Discovery rejects the file: its header cannot be read, or the existence
\* check on the stores as the session found them refuses it.
RejectedAtDiscovery(f) ==
    ~GetFileInfo(f, InputItem(f) # f, InputItem(f), sniff[f],
                 initial.db, initial.bucket, overwrite).proceed

\* C16: every input file that discovery rejects is kept in the record map
\* with proceed = false, and its row is among the failed items of the summary
\* that __exit__ prints.
C16_RejectedRecordsKept ==
    phase \in {"open", "closed"} =>
        \A f \in InputFiles :
            RejectedAtDiscovery(f) =>
                /\ f \in DOMAIN data
                /\ ~data[f].proceed
                /\ summary.printed => InputItem(f) \in summary.failed

HasDuplicate(dl) == \E i \in 1..Len(dl) : \E j \in 1..Len(dl) : i < j /\ dl[i] = dl[j]

\* C17: when the input list names a path twice, __init__ (once access is
\* granted) raises the duplicate-path error of _data_to_deliver, and no
\* get_file_info call has been made for any input before it.
C17_DuplicateRaisesUntouched ==
    (/\ last.op = "__init__"
     /\ AccessChecks(login, data_list) = None
     /\ HasDuplicate(data_list)) =>
        /\ last.ret.raised = "DeliveryOptionException"
        /\ last.ret.touched = 0

\* The login the session is meant for: a known user with the right password
\* and access to the project, a facility calling put or a researcher calling
\* get.
Permitted(lg) ==
    /\ lg.known
    /\ lg.password_ok
    /\ lg.project = "ok"
    /\ \/ lg.role = "facility" /\ lg.method = "put"
       \/ lg.role = "researcher" /\ lg.method = "get"

\* C18: __init__ leaves an open session only for a permitted login; for any
\* other role and method pair, a wrong password, an unknown user or a project
\* without access it raises, and no get_file_info call has been made and no
\* record exists when it does.
C18_AccessBeforeFileWork ==
    last.op = "__init__" =>
        /\ phase = "open" => Permitted(login)
        /\ ~Permitted(login) =>
              /\ phase = "raised"
              /\ last.ret.raised # None
              /\ last.ret.touched = 0
              /\ data = EmptyMap
              /\ failed = EmptyMap

\* C18 witness: a facility user with the right password and project has
\* called get on a directory and a file; __init__ has raised the method error
\* without a get_file_info call.
C18_Witness ==
    /\ phase = "raised"
    /\ last.op = "__init__"
    /\ login = [FacilityPut EXCEPT !.method = "get"]
    /\ data_list = <<"d1", "f4">>
    /\ last.ret.raised = "DeliveryOptionException"
    /\ last.ret.touched = 0

\* C19: after __exit__, on every exit path, teardown has run to completion
\* and no folder the session created is left in the temporary directory.
C19_TeardownLeavesNoTemp ==
    phase = "closed" =>
        /\ temp = {}
        /\ last.ret.raised = None

\* C20: when the removal of one folder fails in _clear_tempdir, every other
\* folder is still removed and nothing is raised out of the teardown.
C20_RemovalFailureContained ==
    (/\ phase = "closed"
     /\ last.arg.cleared
     /\ last.arg.rm.failing # None) =>
        /\ last.ret.raised = None
        /\ temp = {last.arg.rm.failing}

\* C21: when __exit__ runs its loop (no exception in flight, no record both
\* delivered and recorded as failed), a failure inside _finalize is not
\* escalated: nothing is raised by the loop, every record that is not
\* delivered has been handed to _finalize, the summary is printed unless a
\* folder removal fails, and the temporary directory has been cleared.
C21_FinalizeFailureContained ==
    (/\ phase = "closed"
     /\ ~last.arg.exc
     /\ last.ret.raised \notin {"DeliverySystemException", "OSError"}) =>
        /\ last.ret.raised = None
        /\ summary.finalized = {f \in DOMAIN data : ~Delivered(data[f])}
        /\ summary.printed
        /\ last.arg.cleared
        /\ temp = {}

\* C27: no item is listed both among the delivered and among the failed
\* items of the summary that __exit__ prints.
C27_SummarySeparates ==
    (phase = "closed" /\ summary.printed) =>
        summary.succeeded \cap summary.failed = {}

\* C28: the key get_file_info computes for a file it accepts is the file's
\* name followed by '.zst', '.ccp' when the header sniff reports the file as
\* not compressed and by '.ccp' alone when it reports it as compressed,
\* whatever extension the name carries.
C28_KeySuffix ==
    (last.op = "get_file_info" /\ last.ret.proceed) =>
        /\ sniff[last.file] = "plain" =>
              last.ret.new_file = FileName(last.file) \o <<".zst", ".ccp">>
        /\ sniff[last.file] = "packed" =>
              /\ last.ret.new_file = FileName(last.file) \o <<".ccp">>
              /\ EndsWith(last.ret.new_file, Suffixes(last.file) \o <<".ccp">>)

\* C28 witness: a file whose name has the extension of a compressed format
\* and whose header shows no compression has a key ending in that extension,
\* '.zst' and '.ccp'.
C28_Witness ==
    /\ last.op = "get_file_info"
    /\ last.ret.proceed
    /\ sniff[last.file] = "plain"
    /\ Suffixes(last.file) = <<".gz">>
    /\ EndsWith(last.ret.new_file, <<".gz", ".zst", ".ccp">>)

\* C25: under any interleaving of the workers' steps, a record that is
\* cancelled and whose upload has not started does not have its upload
\* started or finished by a later step.
C25_NoUploadAfterCancel ==
    phase = "open" =>
        \A f \in DOMAIN data \cap DOMAIN prev.data :
            (~prev.data[f].proceed /\ ~UploadStarted(prev.data[f])) =>
                ~UploadStarted(data[f])

\* The position of a source path in the sort order of the paths.
PathRank(f) == CASE f = "f1" -> 1 [] f = "f2" -> 2 [] f = "f3" -> 3 [] OTHER -> 4

\* The last call was update_delivery running its break-on-fail loop.
Cascading ==
    /\ Cancelling
    /\ break_on_fail
    /\ prev.data[last.file].in_directory

\* C26 as claimed: the loop of the cascade rewrites the records in the sort
\* order of their source paths.
C26_VisitsInSortOrder ==
    Cascading =>
        \A i \in 1..Len(last.ret.visited) : \A j \in 1..Len(last.ret.visited) :
            i < j => PathRank(last.ret.visited[i]) < PathRank(last.ret.visited[j])

\* C26 as amended: the loop of the cascade rewrites the records in the
\* insertion order of the record map, not in sort order; whatever that order
\* is, for the same records and the same failing record the loop leaves the
\* same record map (the same records cancelled with the same error texts) and
\* has rewritten the same set of records.
C26_SameResultWhateverOrder ==
    Cascading =>
        /\ \A i \in 1..Len(order) : \A j \in 1..Len(order) :
              (/\ i < j
               /\ order[i] \in Elements(last.ret.visited)
               /\ order[j] \in Elements(last.ret.visited)) =>
                 \E k \in 1..Len(last.ret.visited) : \E l \in 1..Len(last.ret.visited) :
                     k < l /\ last.ret.visited[k] = order[i] /\ last.ret.visited[l] = order[j]
        /\ \A ord \in Orders(DOMAIN prev.data) :
              LET r == CascadeLoop(prev.data, ord, 1, last.file, last.arg.error, <<>>)
              IN /\ r.data = data
                 /\ Elements(r.visited) = Elements(last.ret.visited)

\* C26 witness: the loop has cancelled the two files of a directory, the
\* second in sort order before the first.
C26_Witness ==
    /\ Cascading
    /\ last.ret.visited = <<"f2", "f1">>
    /\ ~data["f1"].proceed
    /\ ~data["f2"].proceed
    /\ RefersToLast(data["f1"])
    /\ RefersToLast(data["f2"])

\* C22 as claimed: after finish_download has failed to decrypt a container,
\* no destination file exists, whether or not one existed before.
C22_NoDestinationAfterFailure ==
    (last.op = "finish_download" /\ last.ret.raised = "CryptoError") =>
        DecFile(last.file) \notin DOMAIN local.files

\* C23: get leaves every local file that exists as it is and reports its key
\* as skipped, and however often get is called no key is downloaded more
\* than once.
C23_GetNeverOverwrites ==
    /\ last.op = "get" =>
          /\ \A k \in DOMAIN prev.local.files :
                /\ k \in DOMAIN local.files
                /\ local.files[k] = prev.local.files[k]
          /\ \A k \in FilesInBucket(bucket, last.file) \cap DOMAIN prev.local.files :
                /\ k \notin last.ret.tried
                /\ last.ret.raised = None => k \in last.ret.skipped
    /\ \A k \in DOMAIN local.fetched : local.fetched[k] <= 1

\* C23 witness: a second get of a path has skipped a key the first one
\* downloaded.
C23_Witness ==
    /\ last.op = "get"
    /\ last.ret.raised = None
    /\ \E k \in last.ret.skipped :
          /\ k \in DOMAIN local.fetched
          /\ local.fetched[k] = 1
          /\ local.files[k] = "container"

Count(seq, x) == Cardinality({i \in 1..Len(seq) : seq[i] = x})

\* Project IDs never descend along the list.
AscendingId(seq) ==
    \A i \in 1..Len(seq) : \A j \in 1..Len(seq) :
        i < j => ~KeyLess(seq[j].id, seq[i].id)

\* C29 as claimed: list_projects returns exactly the projects of the
\* response, each as often as the response holds it; with no sort option
\* given they are in ascending Project ID order; with a sort column given,
\* projects equal in that column are in ascending Project ID order.
C29_ListedInIdOrder ==
    (last.op = "list_projects" /\ last.ret.raised = None) =>
        /\ Len(last.ret.returned) = Len(last.arg.resp.project_info)
        /\ \A x \in Projects :
              Count(last.ret.returned, x) = Count(last.arg.resp.project_info, x)
        /\ last.arg.sort_by = None => AscendingId(last.ret.returned)
        /\ \A column \in {"Title", "Last updated", "GBHours"} :
              (/\ last.arg.sort_by # None
               /\ SortingDict(last.arg.sort_by) = column
               /\ column = "GBHours" => last.arg.show_usage) =>
                 \A v \in {NoValue, Value(1), Value(2)} :
                    \A i \in 1..Len(last.ret.returned) :
                       \A j \in 1..Len(last.ret.returned) :
                          (/\ i < j
                           /\ Column(last.ret.returned[i], column) = v
                           /\ Column(last.ret.returned[j], column) = v) =>
                             ~KeyLess(last.ret.returned[j].id, last.ret.returned[i].id)

\* C30: when the response holds no project info, list_projects raises the
\* error "No project info was retrieved", prints no table and no row, and
\* returns no project.
C30_NoInfoNoTable ==
    (/\ last.op = "list_projects"
     /\ last.arg.resp.kind = "json"
     /\ (~last.arg.resp.has_info \/ last.arg.resp.project_info = <<>>)) =>
        /\ last.ret.raised = "NoDataError"
        /\ Contains(last.ret.message, <<"No project info was retrieved">>)
        /\ ~last.ret.printed
        /\ last.ret.rows = <<>>
        /\ last.ret.returned = <<>>

\* C30 witness: list_projects has raised on a response whose project_info
\* is an empty list.
C30_Witness ==
    /\ last.op = "list_projects"
    /\ last.arg.resp.kind = "json"
    /\ last.arg.resp.has_info
    /\ last.arg.resp.project_info = <<>>
    /\ last.ret.raised = "NoDataError"

\* C33: prep_upload and put called on a cancelled record return a failure
\* and leave every record, the temporary folder (nothing was encrypted) and
\* the bucket as they were.
C33_CancelledNotWorkedOn ==
    (/\ last.op \in {"prep_upload", "put"}
     /\ ~prev.data[last.file].proceed) =>
        /\ last.op = "prep_upload" => ~last.ret.processed
        /\ last.op = "put" => ~last.ret.uploaded
        /\ data = prev.data
        /\ temp = prev.temp
        /\ bucket = prev.bucket

\* C33 witness: put, with an upload that would succeed, was called on a
\* cancelled record and has not uploaded it.
C33_Witness ==
    /\ last.op = "put"
    /\ last.arg.ok
    /\ ~prev.data[last.file].proceed
    /\ ~last.ret.uploaded
    /\ data[last.file].new_file \notin bucket

\* The records of a map that are cancelled.
CancelledIn(d) == {f \in DOMAIN d : ~d[f].proceed}

\* C35 as claimed: update_data_dict with proceed false leaves cancelled
\* exactly the records update_delivery with the same arguments would leave
\* cancelled; it cancels no sibling when break_on_fail is disabled, and no
\* sibling whose upload is in progress or finished.
C35_EntryPointsAgree ==
    (last.op = "update_data_dict" /\ ~last.arg.proceed) =>
        /\ CancelledIn(data) =
              CancelledIn(UpdatedData(prev.data, break_on_fail, last.file, last.arg))
        /\ \A f \in DOMAIN data \ {last.file} :
              (prev.data[f].proceed /\ ~data[f].proceed) =>
                 /\ break_on_fail
                 /\ ~UploadStarted(prev.data[f])

\* C36 as claimed: whatever update_delivery and set_progress calls were
\* made, no record is in the delivered condition and a key of the failed map
\* at once, and __exit__ never raises the error for such a record.
C36_NeverDeliveredAndFailed ==
    /\ \A f \in DOMAIN data : Delivered(data[f]) => f \notin DOMAIN failed
    /\ phase = "closed" => last.ret.raised # "DeliverySystemException"

\* C37 as claimed: without a config file and with username, password and
\* project id given, _check_user_input returns, whether or not the project
\* owner is given; without a config file it raises its option error only
\* when one of the three is missing.
C37_LooseCredentialsAccepted ==
    (last.op = "_check_user_input" /\ last.arg.config = None) =>
        /\ (last.arg.username /\ last.arg.password /\ last.arg.project_id) =>
              last.ret.raised = None
        /\ last.ret.raised = "DeliveryOptionException" =>
              ~(last.arg.username /\ last.arg.password /\ last.arg.project_id)

\* The class does not permit the method of the construction.
NotPermitted(c) ==
    CASE c.class = "DataLister" -> c.method # "ls"
      [] c.class = "DataRemover" -> c.method # "rm"
      [] OTHER -> c.method_check /\ c.method \notin DDS_METHODS

RECURSIVE RemotePaths(_, _)
RemotePaths(remote, prefix) ==
    UNION {{[path |-> prefix \o <<x.name>>, folder |-> x.folder]}
              \cup RemotePaths(x.children, prefix \o <<x.name>>) : x \in remote}

\* The files and folders of a FileTree, each with its path from the root.
RECURSIVE TreePaths(_, _)
TreePaths(tree, prefix) ==
    UNION {{[path |-> prefix \o <<tree.subtrees[i].name>>,
             folder |-> tree.subtrees[i].folder]}
              \cup TreePaths(tree.subtrees[i], prefix \o <<tree.subtrees[i].name>>) :
                 i \in 1..Len(tree.subtrees)}

\* C31: list_recursive on a remote tree ends; it has sent one list request
\* for the root and one for every folder of the tree, each with the folder's
\* path from the root as subpath, and no other; unless the project is empty
\* it ends without an exception, and every file and folder of the remote
\* tree is in the tree it has built, at its path.
C31_OneRequestPerFolder ==
    last.op = "list_recursive" =>
        LET paths == RemotePaths(last.arg.remote, <<>>)
            folders == {<<>>} \cup {x.path : x \in {y \in paths : y.folder}}
        IN /\ Elements(last.ret.sent) = folders
           /\ Len(last.ret.sent) = Cardinality(folders)
           /\ last.ret.sent[1] = <<>>
           /\ last.ret.raised = None <=> last.arg.remote # {}
           /\ TreePaths(last.ret.tree, <<>>) = paths

\* C31 witness: a tree with a folder inside a folder was listed with three
\* requests or more, the nested folder's among them.
C31_Witness ==
    /\ last.op = "list_recursive"
    /\ last.ret.raised = None
    /\ Len(last.ret.sent) >= 3
    /\ \E i \in 1..Len(last.ret.sent) : Len(last.ret.sent[i]) = 2
    /\ \E x \in TreePaths(last.ret.tree, <<>>) : Len(x.path) = 3 /\ ~x.folder

\* ------------------------------------------------------------------------
\* C34: do_file_checks and get_file_info agree.  Whatever the header sniff,
\* the database, the bucket and the overwrite option, do_file_checks lets a
\* file proceed exactly when get_file_info does on the same file, and when
\* both proceed they name the same target key.
C34_FileChecksAgree ==
    last.op = "do_file_checks" =>
        LET info == GetFileInfo(last.file, FALSE, None, sniff[last.file], db,
                                bucket, overwrite)
        IN /\ last.ret.proceed = info.proceed
           /\ info.proceed => last.ret.bucketfilename = info.new_file

\* ------------------------------------------------------------------------
\* C32: round trip of the container format.  For a plaintext of size 0, 1,
\* chunk_size - 1, chunk_size, chunk_size + 1 or 10 * chunk_size, decrypting
\* the container that encrypt wrote, with the matching keys, raises nothing
\* and yields the same plaintext.
C32_RoundTrip ==
    (/\ last.op = "decrypt"
     /\ last.arg.matching
     /\ Len(last.arg.plaintext) \in PlainSizes) =>
        /\ last.ret.raised = None
        /\ last.ret.plaintext = last.arg.plaintext

\* A plaintext of ten chunks with distinct bytes has gone through ten blocks
\* and come back.
C32_Witness ==
    /\ last.op = "decrypt"
    /\ last.arg.matching
    /\ Len(last.arg.plaintext) = 10 * ChunkSize
    /\ last.arg.blocks = 10
    /\ last.arg.plaintext[1] # last.arg.plaintext[2]
    /\ last.ret.plaintext = last.arg.plaintext

====
